---- MODULE Spec2Model ----
(***************************************************************************)
(* Promptify: the feature-vector ranking engine (logic/search_engine.py),  *)
(* the weighted-target construction (data_class/recommendation_params.py)  *)
(* and the callers' view of the lazily loaded catalog.                     *)
(*                                                                         *)
(* Numbers.  Feature values are fixed-point: the real number r is the      *)
(* integer r * Unit, so 1.0 is Unit, 0.5 is Unit \div 2 and 125 BPM is     *)
(* 125 * Unit.  Weights are counted in halves: 1 is 0.5, 2 is 1.0 and 20   *)
(* is 10.0.  A score is therefore in units of 1 / (2 * Unit^2).  The       *)
(* arithmetic is exact: float32 rounding is not modelled.                  *)
(*                                                                         *)
(* A Python value that may be None is a sequence: <<>> is None and <<x>>   *)
(* is the number x.                                                        *)
(***************************************************************************)
EXTENDS Integers, Sequences, FiniteSets, TLC

VARIABLES
    disk,             \* the catalog artifact at db_path (never written by the engine)
    numpy,            \* the build's tie orders for np.argsort and np.argpartition
    is_loaded,        \* SearchEngine._is_loaded
    features_matrix,  \* SearchEngine.features_matrix
    metadata_df,      \* SearchEngine.metadata_df
    reads,            \* number of pd.read_parquet calls made so far
    pc,               \* each caller's position in its current call
    full_df,          \* each caller's local full_df inside load_data
    ret,              \* outcome of the call that returned last
    interp,           \* the locals of LlmPromptInterpreter.interpret
    session_state,    \* st.session_state of the one browser session
    sheet,            \* the rows of the votes sheet
    generations       \* number of generations started so far

\* what the engine and its callers never touch
app == <<interp, session_state, sheet, generations>>

vars == <<disk, numpy, is_loaded, features_matrix, metadata_df, reads, pc, full_df, ret, app>>

-----------------------------------------------------------------------------
(* config/model_consts.py *)

FEATURE_ORDER == <<"acousticness", "danceability", "energy", "tempo", "valence", "popularity">>

F == Len(FEATURE_ORDER)

FeatureNames == {FEATURE_ORDER[i] : i \in 1..F}

DEFAULT_PLAYLIST_LENGTH == 5

-----------------------------------------------------------------------------
(* Bounds of the model *)

MaxRows == 3

MaxTopN == 4

MaxCands == 3

NumThreads == 2

\* storage reads counted before the model stops following further ones
MaxReads == 3

-----------------------------------------------------------------------------
(* Python values *)

None == <<>>

Num(x) == <<x>>

Floats(v) == [i \in DOMAIN v |-> Num(v[i])]

Max(a, b) == IF b > a THEN b ELSE a

Min(a, b) == IF b < a THEN b ELSE a

\* list.index: the first position holding x, 0 when there is none (ValueError)
Index(seq, x) ==
    IF \E i \in DOMAIN seq : seq[i] = x
    THEN CHOOSE i \in DOMAIN seq : seq[i] = x /\ \A j \in 1..(i - 1) : seq[j] # x
    ELSE 0

\* zip(FEATURE_ORDER, v): stops at the shorter of the two
ZipLen(v) == Min(F, Len(v))

-----------------------------------------------------------------------------
(* SearchEngine._normalize_value *)

TempoMax == 250

PopularityMax == 100

Unit == 2 * TempoMax

NormalizeValue_NoClampHigh(feature_name, value) ==
    IF value = None THEN 0
    ELSE LET non_negative_value == Max(value[1], 0)
         IN  IF feature_name = "tempo" THEN non_negative_value \div TempoMax
             ELSE IF feature_name = "popularity" THEN non_negative_value \div PopularityMax
             ELSE non_negative_value

NormalizeValue(feature_name, value) ==
    IF value = None THEN 0
    ELSE LET non_negative_value == Max(value[1], 0)
         IN  IF feature_name = "tempo" THEN Min(non_negative_value \div TempoMax, Unit)
             ELSE IF feature_name = "popularity" THEN Min(non_negative_value \div PopularityMax, Unit)
             ELSE Min(non_negative_value, Unit)

\* [_normalize_value(f, val) for f, val in zip(FEATURE_ORDER, target_vector)]
\* every target value put on the popularity scale, tempo included
NormTarget_OneScale(target_vector) ==
    [i \in 1..ZipLen(target_vector) |-> NormalizeValue("popularity", target_vector[i])]

NormTarget(target_vector) ==
    [i \in 1..ZipLen(target_vector) |-> NormalizeValue(FEATURE_ORDER[i], target_vector[i])]

-----------------------------------------------------------------------------
(* SearchEngine._calculate_weighted_distance, with numpy's broadcasting of a *)
(* 1-D array against the rows of an n x F matrix                             *)

Broadcastable(arr) == Len(arr) = F \/ Len(arr) = 1

Broadcast(arr) == [i \in 1..F |-> IF Len(arr) = 1 THEN arr[1] ELSE arr[i]]

\* candidates_matrix + target_arr in place of the difference
MatrixSub_Added(candidates_matrix, target_arr) ==
    LET t == Broadcast(target_arr)
    IN  [r \in DOMAIN candidates_matrix |-> [i \in 1..F |-> candidates_matrix[r][i] + t[i]]]

MatrixSub(candidates_matrix, target_arr) ==
    LET t == Broadcast(target_arr)
    IN  [r \in DOMAIN candidates_matrix |-> [i \in 1..F |-> candidates_matrix[r][i] - t[i]]]

MatrixSquare(diff) ==
    [r \in DOMAIN diff |-> [i \in 1..F |-> diff[r][i] * diff[r][i]]]

MatrixMul_Added(squared_diff, weights_arr) ==
    LET w == Broadcast(weights_arr)
    IN  [r \in DOMAIN squared_diff |-> [i \in 1..F |-> squared_diff[r][i] + w[i]]]

MatrixMul(squared_diff, weights_arr) ==
    LET w == Broadcast(weights_arr)
    IN  [r \in DOMAIN squared_diff |-> [i \in 1..F |-> squared_diff[r][i] * w[i]]]

RECURSIVE SumTo(_, _)
SumTo(row, n) == IF n = 0 THEN 0 ELSE SumTo(row, n - 1) + row[n]

\* a running sum down the rows instead of one sum per row
SumAxis1_Running(m) ==
    [r \in DOMAIN m |-> SumTo(m[r], F) + (IF r > 1 THEN SumTo(m[r - 1], F) ELSE 0)]

SumAxis1(m) == [r \in DOMAIN m |-> SumTo(m[r], F)]

CalculateWeightedDistance_Unweighted(candidates_matrix, target_arr, weights_arr) ==
    SumAxis1(MatrixSquare(MatrixSub(candidates_matrix, target_arr)))

CalculateWeightedDistance(candidates_matrix, target_arr, weights_arr) ==
    LET diff          == MatrixSub(candidates_matrix, target_arr)
        squared_diff  == MatrixSquare(diff)
        weighted_diff == MatrixMul(squared_diff, weights_arr)
    IN  SumAxis1(weighted_diff)

\* the broadcasts of lines 72 and 74 succeed
ShapesOk(target_arr, weights_arr) == Broadcastable(target_arr) /\ Broadcastable(weights_arr)

-----------------------------------------------------------------------------
(* Sorting *)

\* list.sort(key=...): stable, ascending
KeyRank(keys, a) ==
    Cardinality({b \in DOMAIN keys : keys[b] < keys[a] \/ (keys[b] = keys[a] /\ b < a)}) + 1

StableSortOrder_Unstable(keys) ==
    [p \in DOMAIN keys |-> CHOOSE a \in DOMAIN keys :
        Cardinality({b \in DOMAIN keys : keys[b] < keys[a] \/ (keys[b] = keys[a] /\ b > a)}) + 1 = p]

StableSortOrder(keys) ==
    [p \in DOMAIN keys |-> CHOOSE a \in DOMAIN keys : KeyRank(keys, a) = p]

\* np.argsort (default kind, not stable) and np.argpartition leave the order of
\* equal elements to the build: a tie order is "first" (lower index first) or
\* "last" (higher index first)
TieOrders == {"first", "last"}

Before(keys, tie, b, a) ==
    keys[b] < keys[a] \/ (keys[b] = keys[a] /\ IF tie = "first" THEN b < a ELSE b > a)

ArgOrder(keys, tie) ==
    [p \in DOMAIN keys |-> CHOOSE a \in DOMAIN keys :
        Cardinality({b \in DOMAIN keys : Before(keys, tie, b, a)}) + 1 = p]

ArgSort(scores) == ArgOrder(scores, numpy.sort)

\* np.argpartition(scores, kth), kth counted from 0: a permutation with the
\* element of sorted position kth in place, no larger element before it and no
\* smaller one after it.  The order inside the two blocks is the build's: the
\* layout "sorted" leaves both ascending, "reversed" leaves both descending.
Layouts == {"sorted", "reversed"}

ArgPartition(scores, kth) ==
    LET full == ArgOrder(scores, numpy.partition)
        n    == Len(scores)
    IN  IF numpy.layout = "sorted" THEN full
        ELSE [p \in 1..n |->
                IF p <= kth THEN full[kth + 1 - p]
                ELSE IF p = kth + 1 THEN full[p]
                ELSE full[n + kth + 2 - p]]

Take(seq, n) == [i \in 1..Min(n, Len(seq)) |-> seq[i]]

-----------------------------------------------------------------------------
(* The catalog artifact (songs_DB/tracks_db.parquet) and the inputs drawn *)

\* stored (already normalized) feature vectors, in FEATURE_ORDER order
RowPool ==
    << <<Unit, 0, 0, 0, 0, 0>>,
       <<0, Unit, Unit, Unit, Unit, Unit \div 2>>,
       <<Unit \div 2, Unit \div 2, Unit \div 2, Unit \div 2, Unit \div 2, Unit \div 2>> >>

\* row i of the file: its metadata columns and its feature columns, by name
DiskRow(i, p) ==
    [track_id   |-> <<"id", i>>,
     track_name |-> <<"name", i>>,
     artists    |-> <<"artist", p>>,
     feats      |-> [f \in FeatureNames |-> RowPool[p][Index(FEATURE_ORDER, f)]]]

RowChoices == UNION {[1..n -> DOMAIN RowPool] : n \in 0..MaxRows}

GoodDisks ==
    {[exists  |-> TRUE,
      columns |-> FeatureNames,
      rows    |-> [i \in DOMAIN c |-> DiskRow(i, c[i])]] : c \in RowChoices}

MissingDisk == [exists |-> FALSE, columns |-> {}, rows |-> <<>>]

\* a file written with another schema: no popularity column
StaleDisk ==
    [exists  |-> TRUE,
     columns |-> FeatureNames \ {"popularity"},
     rows    |-> <<DiskRow(1, 1)>>]

Disks == GoodDisks \cup {MissingDisk, StaleDisk}

\* a raw target that normalizes to pool row p: tempo in BPM, popularity in 0..100
RawOf(p) ==
    [i \in 1..F |->
        IF FEATURE_ORDER[i] = "tempo" THEN RowPool[p][i] * TempoMax
        ELSE IF FEATURE_ORDER[i] = "popularity" THEN RowPool[p][i] * PopularityMax
        ELSE RowPool[p][i]]

\* raw targets: those that normalize to a pool row, the pool rows taken as they
\* are, and one outside every range (2.0, -1.0, 400 BPM, popularity 150)
TargetVectors ==
    {Floats(RawOf(p)) : p \in DOMAIN RowPool} \cup {Floats(RowPool[p]) : p \in DOMAIN RowPool}
    \cup {Floats(<<2 * Unit, 0 - Unit, Unit \div 2, 400 * Unit, 0, 150 * Unit>>),
          Floats(<<0, 0, Unit, 250 * Unit, 0, 0>>)}

WeightVectors ==
    { <<2, 2, 2, 2, 2, 2>>, <<0, 0, 0, 0, 0, 0>>, <<0, 0, 2, 2, 0, 0>>,
      <<0, 0, 0, 0, 0, 20>>, <<1, 2, 1, 2, 1, 2>>, <<2, 0, 0, 0, 0, 0>> }

TopNs == 1..MaxTopN

Callers == 1..NumThreads

-----------------------------------------------------------------------------
(* SearchEngine.__init__ *)

NoData == [rid |-> 0, rows |-> <<>>]

NoRet == [op |-> "none"]

\* app.py init_session_state (lines 35-54); spotify_auth is TRUE once logged in
Defaults ==
    [spotify_auth   |-> None,
     current_prompt |-> "",
     show_results   |-> FALSE,
     is_generating  |-> FALSE,
     v1_results     |-> None,
     v2_results     |-> None,
     v1_error       |-> None,
     v2_error       |-> None,
     playlist_a_url |-> None,
     playlist_b_url |-> None,
     vote_submitted |-> FALSE,
     vote_success   |-> FALSE]

InitWith(d, np) ==
    /\ disk = d
    /\ numpy = np
    /\ is_loaded = FALSE
    /\ features_matrix = NoData
    /\ metadata_df = NoData
    /\ reads = 0
    /\ pc = [t \in Callers |-> "idle"]
    /\ full_df = [t \in Callers |-> NoData]
    /\ ret = NoRet
    /\ interp = [response_model |-> "", strategy |-> 0, retries |-> 0, attempt |-> 0,
                 responses |-> <<>>, sleeps |-> 0]
    /\ session_state = Defaults
    /\ sheet = <<>>
    /\ generations = 0

Builds == [sort : TieOrders, partition : TieOrders, layout : Layouts]

Init == \E d \in Disks, np \in Builds : InitWith(d, np)

-----------------------------------------------------------------------------
(* SearchEngine.load_data, one step per statement that other callers can see *)

Raise(t, op, exc) ==
    /\ pc' = [pc EXCEPT ![t] = "idle"]
    /\ ret' = [op |-> op, at |-> "load_data", status |-> exc]

\* search_db line 161: if not self._is_loaded: self.load_data()
SearchDbCall(t) ==
    /\ pc[t] = "idle"
    /\ pc' = [pc EXCEPT ![t] = IF ~is_loaded THEN "load_data" ELSE "compute"]
    /\ ret' = NoRet
    /\ UNCHANGED <<disk, numpy, is_loaded, features_matrix, metadata_df, reads, full_df, app>>

\* lines 20-24: the _is_loaded test and the os.path.exists test
LoadDataEnter(t) ==
    /\ pc[t] = "load_data"
    /\ IF is_loaded
       THEN pc' = [pc EXCEPT ![t] = "compute"] /\ ret' = ret
       ELSE IF ~disk.exists
            THEN Raise(t, "search_db", "FileNotFoundError")
            ELSE pc' = [pc EXCEPT ![t] = "read"] /\ ret' = ret
    /\ UNCHANGED <<disk, numpy, is_loaded, features_matrix, metadata_df, reads, full_df, app>>

\* lines 27-36 with the flag set before the missing-feature test
LoadDataRead_FlagFirst(t) ==
    /\ pc[t] = "read"
    /\ reads < MaxReads
    /\ reads' = reads + 1
    /\ is_loaded' = TRUE
    /\ LET missing_features == {f \in FeatureNames : f \notin disk.columns}
       IN  IF missing_features # {}
           THEN Raise(t, "search_db", "ValueError") /\ full_df' = full_df
           ELSE /\ full_df' = [full_df EXCEPT ![t] = [rid |-> reads + 1, rows |-> disk.rows]]
                /\ pc' = [pc EXCEPT ![t] = "set_matrix"]
                /\ ret' = ret
    /\ UNCHANGED <<disk, numpy, features_matrix, metadata_df, app>>

\* lines 27-36: pd.read_parquet and the missing-feature test
LoadDataRead(t) ==
    /\ pc[t] = "read"
    /\ reads < MaxReads
    /\ reads' = reads + 1
    /\ LET missing_features == {f \in FeatureNames : f \notin disk.columns}
       IN  IF missing_features # {}
           THEN Raise(t, "search_db", "ValueError") /\ full_df' = full_df
           ELSE /\ full_df' = [full_df EXCEPT ![t] = [rid |-> reads + 1, rows |-> disk.rows]]
                /\ pc' = [pc EXCEPT ![t] = "set_matrix"]
                /\ ret' = ret
    /\ UNCHANGED <<disk, numpy, is_loaded, features_matrix, metadata_df, app>>

\* full_df[FEATURE_ORDER].to_numpy()
ToMatrix(rows) == [r \in DOMAIN rows |-> [i \in 1..F |-> rows[r].feats[FEATURE_ORDER[i]]]]

\* full_df[meta_cols].copy()
ToMeta(rows) ==
    [r \in DOMAIN rows |->
        [track_id |-> rows[r].track_id, track_name |-> rows[r].track_name,
         artists |-> rows[r].artists]]

\* line 39
LoadDataSetMatrix(t) ==
    /\ pc[t] = "set_matrix"
    /\ features_matrix' = [rid |-> full_df[t].rid, rows |-> ToMatrix(full_df[t].rows)]
    /\ pc' = [pc EXCEPT ![t] = "set_meta"]
    /\ UNCHANGED <<disk, numpy, is_loaded, metadata_df, reads, full_df, ret, app>>

\* line 42
LoadDataSetMeta(t) ==
    /\ pc[t] = "set_meta"
    /\ metadata_df' = [rid |-> full_df[t].rid, rows |-> ToMeta(full_df[t].rows)]
    /\ pc' = [pc EXCEPT ![t] = "set_flag"]
    /\ UNCHANGED <<disk, numpy, is_loaded, features_matrix, reads, full_df, ret, app>>

\* line 44, and the return into search_db
LoadDataSetFlag(t) ==
    /\ pc[t] = "set_flag"
    /\ is_loaded' = TRUE
    /\ pc' = [pc EXCEPT ![t] = "compute"]
    /\ full_df' = [full_df EXCEPT ![t] = NoData]
    /\ UNCHANGED <<disk, numpy, features_matrix, metadata_df, reads, ret, app>>

-----------------------------------------------------------------------------
(* SearchEngine.search_db, lines 164-198 *)

\* lines 179-185: the row indices of the best top_n rows, best first
TopIndicesSorted_FirstRows(scores, top_n) ==
    [j \in 1..Min(top_n, Len(scores)) |-> j]

TopIndicesSorted_Partitioned(scores, top_n) ==
    IF top_n >= Len(scores) THEN ArgSort(scores)
    ELSE Take(ArgPartition(scores, top_n), top_n)

TopIndicesSorted_OffByOne(scores, top_n) ==
    Take(ArgSort(scores), top_n - 1)

TopIndicesSorted(scores, top_n) ==
    LET num_songs == Len(scores)
    IN  IF top_n >= num_songs
        THEN ArgSort(scores)
        ELSE LET top_indices == Take(ArgPartition(scores, top_n), top_n)
                 sub         == [j \in DOMAIN top_indices |-> scores[top_indices[j]]]
                 order       == ArgSort(sub)
             IN  [j \in DOMAIN top_indices |-> top_indices[order[j]]]

\* lines 187-196: one result per index, metadata and score read at that index
ResultRows_ByPosition(matrix, meta, scores, top_indices_sorted) ==
    [j \in DOMAIN top_indices_sorted |->
        [track_id      |-> meta[j].track_id,
         track_name    |-> meta[j].track_name,
         artists       |-> meta[j].artists,
         score_squared |-> scores[top_indices_sorted[j]]]]

ResultRows(matrix, meta, scores, top_indices_sorted) ==
    [j \in DOMAIN top_indices_sorted |->
        LET idx == top_indices_sorted[j]
            row == meta[idx]
        IN  [track_id      |-> row.track_id,
             track_name    |-> row.track_name,
             artists       |-> row.artists,
             score_squared |-> scores[idx]]]

\* lines 171-177
SearchScores(matrix, target_vector, weights_vector) ==
    LET norm_target == NormTarget(target_vector)
        target_arr  == norm_target
        weights_arr == weights_vector
    IN  CalculateWeightedDistance(matrix, target_arr, weights_arr)

\* search_db without the length test of lines 164-169
SearchDbOn_NoLengthTest(matrix, meta, target_vector, weights_vector, top_n) ==
    LET target6  == [i \in 1..F |-> IF i <= Len(target_vector) THEN target_vector[i]
                                    ELSE Num(0)]
        weights6 == [i \in 1..F |-> IF i <= Len(weights_vector) THEN weights_vector[i] ELSE 0]
        scores   == SearchScores(matrix, target6, weights6)
        top_indices_sorted == TopIndicesSorted(scores, top_n)
    IN  [op      |-> "search_db",
         at      |-> "search_db",
         status  |-> "ok",
         target  |-> target_vector,
         weights |-> weights_vector,
         top_n   |-> top_n,
         results |-> ResultRows(matrix, meta, scores, top_indices_sorted)]

\* lines 164-198 on the catalog held in matrix and meta
SearchDbOn(matrix, meta, target_vector, weights_vector, top_n) ==
    LET expected_len == F
    IN  IF Len(target_vector) # expected_len \/ Len(weights_vector) # expected_len
        THEN [op      |-> "search_db",
              at      |-> "search_db",
              status  |-> "ValueError",
              target  |-> target_vector,
              weights |-> weights_vector,
              top_n   |-> top_n,
              results |-> <<>>]
        ELSE LET scores == SearchScores(matrix, target_vector, weights_vector)
                 top_indices_sorted == TopIndicesSorted(scores, top_n)
             IN  [op      |-> "search_db",
                  at      |-> "search_db",
                  status  |-> "ok",
                  target  |-> target_vector,
                  weights |-> weights_vector,
                  top_n   |-> top_n,
                  results |-> ResultRows(matrix, meta, scores, top_indices_sorted)]

SearchDbBody(target_vector, weights_vector, top_n) ==
    SearchDbOn(features_matrix.rows, metadata_df.rows, target_vector, weights_vector, top_n)

\* a search that leaves the matrix sorted by score, best row first
SearchDbCompute_SortsInPlace(t, target_vector, weights_vector, top_n) ==
    /\ pc[t] = "compute"
    /\ ret' = SearchDbBody(target_vector, weights_vector, top_n)
    /\ pc' = [pc EXCEPT ![t] = "idle"]
    /\ features_matrix' =
          IF Len(target_vector) = F /\ Len(weights_vector) = F
          THEN LET order == ArgSort(SearchScores(features_matrix.rows, target_vector,
                                                 weights_vector))
               IN  [features_matrix EXCEPT
                      !.rows = [r \in DOMAIN order |-> features_matrix.rows[order[r]]]]
          ELSE features_matrix
    /\ UNCHANGED <<disk, numpy, is_loaded, metadata_df, reads, full_df, app>>

SearchDbCompute(t, target_vector, weights_vector, top_n) ==
    /\ pc[t] = "compute"
    /\ ret' = SearchDbBody(target_vector, weights_vector, top_n)
    /\ pc' = [pc EXCEPT ![t] = "idle"]
    /\ UNCHANGED <<disk, numpy, is_loaded, features_matrix, metadata_df, reads, full_df, app>>

-----------------------------------------------------------------------------
(* SearchEngine.rank_reccobeats_candidates *)

\* track.get(f, 1.0)
Get_DefaultOne(track, f) == IF f \in DOMAIN track.feats THEN track.feats[f] ELSE Num(Unit)

\* track.get(f, 0.0)
Get(track, f) == IF f \in DOMAIN track.feats THEN track.feats[f] ELSE Num(0)

\* lines 96-101: the popularity weight forced to 0.0
ForcePopularity_Kept(weights_vector) == weights_vector

ForcePopularity(weights_vector) ==
    LET pop_idx == Index(FEATURE_ORDER, "popularity")
    IN  IF pop_idx = 0 THEN weights_vector
        ELSE [weights_vector EXCEPT ![pop_idx] = 0]

\* lines 111-120
CandidatesMatrix_MissingAsTarget(candidates_list, target_arr) ==
    [r \in DOMAIN candidates_list |->
        [i \in 1..F |->
            IF FEATURE_ORDER[i] \in DOMAIN candidates_list[r].feats
            THEN NormalizeValue(FEATURE_ORDER[i], candidates_list[r].feats[FEATURE_ORDER[i]])
            ELSE Broadcast(target_arr)[i]]]

CandidatesMatrix(candidates_list) ==
    [r \in DOMAIN candidates_list |->
        [i \in 1..F |->
            LET raw_val  == Get(candidates_list[r], FEATURE_ORDER[i])
                norm_val == NormalizeValue(FEATURE_ORDER[i], raw_val)
            IN  norm_val]]

\* lines 123-129: every track annotated, then list.sort by the score
RankedResults_Truncated(candidates_list, scores) ==
    LET order == StableSortOrder(scores)
    IN  [p \in 1..Min(Len(candidates_list), DEFAULT_PLAYLIST_LENGTH - 3) |->
            [track |-> candidates_list[order[p]], match_score_squared |-> scores[order[p]]]]

RankedResults_Unstable(candidates_list, scores) ==
    LET order == StableSortOrder_Unstable(scores)
    IN  [p \in DOMAIN candidates_list |->
            [track |-> candidates_list[order[p]], match_score_squared |-> scores[order[p]]]]

RankedResults(candidates_list, scores) ==
    LET ranked_results ==
            [i \in DOMAIN candidates_list |->
                [track |-> candidates_list[i], match_score_squared |-> scores[i]]]
        order == StableSortOrder([i \in DOMAIN ranked_results |->
                                     ranked_results[i].match_score_squared])
    IN  [p \in DOMAIN ranked_results |-> ranked_results[order[p]]]

RankOutcome(status, candidates_list, target_vector, weights_vector, results) ==
    [op         |-> "rank",
     status     |-> status,
     candidates |-> candidates_list,
     target     |-> target_vector,
     weights    |-> weights_vector,
     results    |-> results]

\* lines 95-131 entered without the test of lines 92-93: an empty matrix of
\* shape (0,) does not broadcast against the F weights
RankReccobeatsCandidates_NoEmptyTest(candidates_list, target_vector, weights_vector) ==
    IF Index(FEATURE_ORDER, "popularity") > Len(weights_vector)
    THEN RankOutcome("IndexError", candidates_list, target_vector, weights_vector, <<>>)
    ELSE LET weights_arr       == ForcePopularity(weights_vector)
             target_arr        == NormTarget(target_vector)
             candidates_matrix == CandidatesMatrix(candidates_list)
         IN  IF candidates_list = <<>> \/ ~ShapesOk(target_arr, weights_arr)
             THEN RankOutcome("ValueError", candidates_list, target_vector, weights_vector, <<>>)
             ELSE LET scores == CalculateWeightedDistance(candidates_matrix, target_arr, weights_arr)
                  IN  RankOutcome("ok", candidates_list, target_vector, weights_vector,
                                  RankedResults(candidates_list, scores))

RankReccobeatsCandidates(candidates_list, target_vector, weights_vector) ==
    IF candidates_list = <<>>
    THEN RankOutcome("ok", candidates_list, target_vector, weights_vector, <<>>)
    ELSE IF Index(FEATURE_ORDER, "popularity") > Len(weights_vector)
    THEN RankOutcome("IndexError", candidates_list, target_vector, weights_vector, <<>>)
    ELSE LET weights_arr       == ForcePopularity(weights_vector)
             target_arr        == NormTarget(target_vector)
             candidates_matrix == CandidatesMatrix(candidates_list)
         IN  IF ~ShapesOk(target_arr, weights_arr)
             THEN RankOutcome("ValueError", candidates_list, target_vector, weights_vector, <<>>)
             ELSE LET scores == CalculateWeightedDistance(candidates_matrix, target_arr, weights_arr)
                  IN  RankOutcome("ok", candidates_list, target_vector, weights_vector,
                                  RankedResults(candidates_list, scores))

\* a static method: the caller enters it, and it returns
RankCall(t) ==
    /\ pc[t] = "idle"
    /\ pc' = [pc EXCEPT ![t] = "rank"]
    /\ ret' = NoRet
    /\ UNCHANGED <<disk, numpy, is_loaded, features_matrix, metadata_df, reads, full_df, app>>

RankCompute(t, candidates_list, target_vector, weights_vector) ==
    /\ pc[t] = "rank"
    /\ ret' = RankReccobeatsCandidates(candidates_list, target_vector, weights_vector)
    /\ pc' = [pc EXCEPT ![t] = "idle"]
    /\ UNCHANGED <<disk, numpy, is_loaded, features_matrix, metadata_df, reads, full_df, app>>

-----------------------------------------------------------------------------
(* Candidates as the ReccoBeats audio-features call returns them: raw values, *)
(* features possibly missing or null                                          *)

Half == Unit \div 2

CandidatePool ==
    << [id |-> "perfect",
        feats |-> [f \in FeatureNames |->
                     IF f = "tempo" THEN Num(125 * Unit)
                     ELSE IF f = "popularity" THEN Num(50 * Unit) ELSE Num(Half)]],
       [id |-> "bad",
        feats |-> [f \in FeatureNames |->
                     IF f = "tempo" THEN Num(0)
                     ELSE IF f = "popularity" THEN Num(50 * Unit) ELSE Num(Half)]],
       [id |-> "sparse",
        feats |-> [f \in {"tempo", "valence"} |->
                     IF f = "tempo" THEN Num(250 * Unit) ELSE None]],
       [id |-> "popular",
        feats |-> [f \in FeatureNames |->
                     IF f = "tempo" THEN Num(125 * Unit)
                     ELSE IF f = "popularity" THEN Num(100 * Unit) ELSE Num(Half)]] >>

CandidateLists ==
    UNION {{[i \in 1..n |-> CandidatePool[c[i]]] : c \in [1..n -> DOMAIN CandidatePool]}
           : n \in 0..MaxCands}

\* vectors whose length is not F
OddTargets == {Floats(<<Half>>), Floats(<<Half, Half, Half, 125 * Unit, Half>>),
               Floats(<<Half, Half, Half, 125 * Unit, Half, 50 * Unit, Half>>), <<>>}

OddWeights == {<<2>>, <<2, 2, 2, 2, 2>>, <<2, 2, 2, 2, 2, 2, 2>>, <<>>}

-----------------------------------------------------------------------------
(* The engine with one caller *)

SearchDbReturn(t) ==
    /\ pc[t] = "compute"
    /\ \E tv \in TargetVectors \cup {Floats(<<Half>>)},
       wv \in WeightVectors \cup {<<2, 2, 2, 2, 2, 2, 2>>}, n \in TopNs :
        SearchDbCompute(t, tv, wv, n)

Step(t) ==
    \/ SearchDbCall(t)
    \/ LoadDataEnter(t)
    \/ LoadDataRead(t)
    \/ LoadDataSetMatrix(t)
    \/ LoadDataSetMeta(t)
    \/ LoadDataSetFlag(t)
    \/ SearchDbReturn(t)

Next == Step(1)

Spec == Init /\ [][Next]_vars

-----------------------------------------------------------------------------
(* Both ranking modes side by side, on catalogs that repeat the pool in order *)

ScoreDisks == {d \in GoodDisks : \A i \in DOMAIN d.rows : d.rows[i] = DiskRow(i, ((i - 1) % Len(RowPool)) + 1)}

OneBuild == [sort |-> "first", partition |-> "first", layout |-> "sorted"]

InitScore == \E d \in ScoreDisks : InitWith(d, OneBuild)

\* the lists of fewer than MaxCands of the candidates "perfect", "bad" and "sparse"
FewCandidateLists ==
    {cl \in CandidateLists :
        Len(cl) < MaxCands /\ \A i \in DOMAIN cl : cl[i].id \in {"perfect", "bad", "sparse"}}

FewWeightVectors ==
    {<<2, 2, 2, 2, 2, 2>>, <<1, 2, 1, 2, 1, 2>>, <<0, 0, 0, 0, 0, 20>>, <<2, 0, 0, 0, 0, 0>>}

RankReturn(t) ==
    /\ pc[t] = "rank"
    /\ \E cl \in FewCandidateLists, tv \in TargetVectors, wv \in FewWeightVectors :
        RankCompute(t, cl, tv, wv)

NextScore == Step(1) \/ RankCall(1) \/ RankReturn(1)

SpecScore == InitScore /\ [][NextScore]_vars

-----------------------------------------------------------------------------
(* rank_reccobeats_candidates alone, on every candidate list *)

InitRank == InitWith(MissingDisk, OneBuild)

RankReturnAny(t) ==
    /\ pc[t] = "rank"
    /\ \E cl \in CandidateLists, tv \in TargetVectors \cup OddTargets,
       wv \in WeightVectors \cup OddWeights :
        RankCompute(t, cl, tv, wv)

NextRank == RankCall(1) \/ RankReturnAny(1)

SpecRank == InitRank /\ [][NextRank]_vars

-----------------------------------------------------------------------------
(* What the claims read off a returned call *)

SearchReturned == ret.op = "search_db" /\ ret.at = "search_db"

SearchOk == SearchReturned /\ ret.status = "ok"

RankOk == ret.op = "rank" /\ ret.status = "ok"

NumRows == Len(features_matrix.rows)

\* sum over i of w[i] * (c[i] - t[i])^2, for vectors of length F
RECURSIVE WeightedSquares(_, _, _, _)
WeightedSquares(c, t, w, i) ==
    IF i = 0 THEN 0
    ELSE w[i] * (c[i] - t[i]) * (c[i] - t[i]) + WeightedSquares(c, t, w, i - 1)

\* the score of catalog row idx for the returned call's target and weights
RowScore(idx) ==
    WeightedSquares(features_matrix.rows[idx], NormTarget(ret.target), ret.weights, F)

\* the normalized row of a re-ranking candidate, and its score
CandidateRow(track) == CandidatesMatrix(<<track>>)[1]

CandidateScore(track) ==
    WeightedSquares(CandidateRow(track), NormTarget(ret.target), ForcePopularity(ret.weights), F)

\* result res carries the metadata of row idx and the score of row idx
AlignedAt(res, idx) ==
    /\ res.track_id = metadata_df.rows[idx].track_id
    /\ res.track_name = metadata_df.rows[idx].track_name
    /\ res.artists = metadata_df.rows[idx].artists
    /\ res.score_squared = RowScore(idx)

Ascending(results) ==
    \A j \in DOMAIN results :
        j > 1 => results[j - 1].score_squared <= results[j].score_squared

NoRowTwice(results) ==
    \A j1, j2 \in DOMAIN results : j1 # j2 => results[j1].track_id # results[j2].track_id

ZeroSet(w) == {i \in 1..F : w[i] = 0}

AgreeOutside(S, a, b) == \A i \in (1..F) \ S : a[i] = b[i]

RawRow(track) == [i \in 1..F |-> Get(track, FEATURE_ORDER[i])]

-----------------------------------------------------------------------------
\* C1: in both ranking modes the score reported for a row is exactly
\* sum_i w[i] * (c[i] - t[i])^2 of that row's vector c, the normalized target t
\* and the weights w the mode uses (popularity weight 0 in re-ranking).
C1_ScoreIsWeightedSum ==
    /\ SearchOk =>
         \A j \in DOMAIN ret.results :
            \E idx \in 1..NumRows :
                /\ ret.results[j].track_id = metadata_df.rows[idx].track_id
                /\ ret.results[j].score_squared = RowScore(idx)
    /\ RankOk =>
         \A j \in DOMAIN ret.results :
            ret.results[j].match_score_squared = CandidateScore(ret.results[j].track)

C1_Witness ==
    /\ SearchOk
    /\ ret.weights = <<1, 2, 1, 2, 1, 2>>
    /\ Len(ret.results) > 1
    /\ ret.results[1].score_squared > 0
    /\ ret.results[2].score_squared > ret.results[1].score_squared

\* C2: zero-weight neutrality.  Changing the target, or the candidate, at
\* indices of weight 0 changes no score and no ranking; with all weights zero
\* every row scores 0.
C2_ZeroWeightNeutral ==
    /\ SearchOk =>
         /\ \A t2 \in TargetVectors :
               AgreeOutside(ZeroSet(ret.weights), t2, ret.target)
               => SearchDbBody(t2, ret.weights, ret.top_n).results = ret.results
         /\ \A j1, j2 \in DOMAIN ret.results :
               (\E i1, i2 \in 1..NumRows :
                   /\ ret.results[j1].track_id = metadata_df.rows[i1].track_id
                   /\ ret.results[j2].track_id = metadata_df.rows[i2].track_id
                   /\ AgreeOutside(ZeroSet(ret.weights), features_matrix.rows[i1],
                                   features_matrix.rows[i2]))
               => ret.results[j1].score_squared = ret.results[j2].score_squared
         /\ ZeroSet(ret.weights) = 1..F
               => \A j \in DOMAIN ret.results : ret.results[j].score_squared = 0
    /\ RankOk =>
         /\ \A t2 \in TargetVectors :
               AgreeOutside(ZeroSet(ret.weights), t2, ret.target)
               => RankReccobeatsCandidates(ret.candidates, t2, ret.weights).results
                    = ret.results
         /\ \A j1, j2 \in DOMAIN ret.results :
               AgreeOutside(ZeroSet(ret.weights), RawRow(ret.results[j1].track),
                            RawRow(ret.results[j2].track))
               => ret.results[j1].match_score_squared = ret.results[j2].match_score_squared
         /\ ZeroSet(ret.weights) = 1..F
               => \A j \in DOMAIN ret.results : ret.results[j].match_score_squared = 0

\* two different candidates that agree on the only weighted feature, and a
\* target that another target of the input set matches on that feature
C2_Witness ==
    /\ RankOk
    /\ ret.weights = <<2, 0, 0, 0, 0, 0>>
    /\ Len(ret.results) = 2
    /\ ret.results[1].track.id = "bad"
    /\ ret.results[2].track.id = "perfect"
    /\ ret.results[1].match_score_squared > 0
    /\ \E t2 \in TargetVectors :
          t2 # ret.target /\ AgreeOutside(ZeroSet(ret.weights), t2, ret.target)

-----------------------------------------------------------------------------
(* Catalog search *)

\* the normalized target equals row idx on every feature of non-zero weight
MatchesWeighted(idx) ==
    \A i \in 1..F :
        ret.weights[i] # 0 => NormTarget(ret.target)[i] = features_matrix.rows[idx][i]

RowsDistinct ==
    \A i1, i2 \in 1..NumRows :
        i1 # i2 => features_matrix.rows[i1] # features_matrix.rows[i2]

RowAlignment ==
    /\ \A j \in DOMAIN ret.results : \E idx \in 1..NumRows : AlignedAt(ret.results[j], idx)
    /\ NoRowTwice(ret.results)

C4_TopN ==
    (SearchOk /\ ret.top_n <= NumRows) =>
        /\ Len(ret.results) = ret.top_n
        /\ RowAlignment
        /\ Ascending(ret.results)
        /\ \A idx \in 1..NumRows :
              (\A j \in DOMAIN ret.results : ret.results[j].track_id # metadata_df.rows[idx].track_id)
              => \A j \in DOMAIN ret.results : ret.results[j].score_squared <= RowScore(idx)

\* the partial-selection path, on a build whose partition leaves the block unsorted
C4_Witness ==
    /\ SearchOk
    /\ ret.top_n = 2
    /\ NumRows = 3
    /\ numpy.layout = "reversed"
    /\ ret.results[1].score_squared < ret.results[2].score_squared
    /\ \E idx \in 1..NumRows :
          /\ \A j \in DOMAIN ret.results : ret.results[j].track_id # metadata_df.rows[idx].track_id
          /\ RowScore(idx) > ret.results[2].score_squared

\* C5: with vectors of length F and a positive top_n, search_db does not raise
\* and returns exactly min(top_n, N) results; when top_n >= N these are all N
\* rows, ascending by score.
C5_MinTopN ==
    (SearchReturned /\ Len(ret.target) = F /\ Len(ret.weights) = F) =>
        /\ ret.status = "ok"
        /\ Len(ret.results) = Min(ret.top_n, NumRows)
        /\ ret.top_n >= NumRows =>
              /\ {ret.results[j].track_id : j \in DOMAIN ret.results}
                    = {metadata_df.rows[idx].track_id : idx \in 1..NumRows}
              /\ Ascending(ret.results)
              /\ RowAlignment

C5_Witness ==
    /\ SearchOk
    /\ NumRows = 3
    /\ ret.top_n > NumRows
    /\ Len(ret.results) = 3
    /\ ret.results[1].score_squared < ret.results[3].score_squared

-----------------------------------------------------------------------------
(* Candidate re-ranking *)

PermsOf(n) == {pi \in [1..n -> 1..n] : \A a, b \in 1..n : a # b => pi[a] # pi[b]}

\* C6: the output of rank_reccobeats_candidates is the input list permuted:
\* same length, every input position used once, each track annotated with
\* match_score_squared; scores ascend, and equal scores keep their input order.
C6_StablePermutation ==
    RankOk =>
        /\ Len(ret.results) = Len(ret.candidates)
        /\ \E pi \in PermsOf(Len(ret.candidates)) :
              /\ \A p \in DOMAIN ret.results :
                    /\ ret.results[p].track = ret.candidates[pi[p]]
                    /\ DOMAIN ret.results[p] = {"track", "match_score_squared"}
              /\ \A p, q \in DOMAIN ret.results :
                    p < q =>
                      \/ ret.results[p].match_score_squared < ret.results[q].match_score_squared
                      \/ /\ ret.results[p].match_score_squared = ret.results[q].match_score_squared
                         /\ pi[p] < pi[q]

\* input <<bad, popular, perfect>>: bad moves last, the two tied ones keep their order
C6_Witness ==
    /\ RankOk
    /\ Len(ret.candidates) = 3
    /\ ret.candidates[1].id = "bad"
    /\ ret.candidates[2].id = "popular"
    /\ ret.candidates[3].id = "perfect"
    /\ ret.results[1].track.id = "popular"
    /\ ret.results[2].track.id = "perfect"
    /\ ret.results[3].track.id = "bad"
    /\ ret.results[1].match_score_squared = ret.results[2].match_score_squared
    /\ ret.results[2].match_score_squared < ret.results[3].match_score_squared

PopIdx == Index(FEATURE_ORDER, "popularity")

PopWeights == {0, 20}

PopValues == {None, Num(100 * Unit)}

PopTargets == {Num(0), Num(100 * Unit)}

WithPopularity(track, v) ==
    [id |-> track.id,
     feats |-> [f \in DOMAIN track.feats \cup {"popularity"} |->
                  IF f = "popularity" THEN v ELSE track.feats[f]]]

WithoutPopularity(track) ==
    [id |-> track.id, feats |-> [f \in DOMAIN track.feats \ {"popularity"} |-> track.feats[f]]]

IdsAndScores(results) ==
    [p \in DOMAIN results |-> <<results[p].track.id, results[p].match_score_squared>>]

\* C7: the order and the scores returned by rank_reccobeats_candidates are the
\* same for every popularity weight, every target popularity and every
\* candidate popularity (present, null or missing); weights that are zero
\* except on popularity give every candidate score 0.
C7_PopularityIgnored ==
    (RankOk /\ Len(ret.weights) = F /\ Len(ret.target) = F) =>
        /\ \A pw \in PopWeights, pt \in PopTargets, pv \in PopValues :
              LET weights2 == [ret.weights EXCEPT ![PopIdx] = pw]
                  target2  == [ret.target EXCEPT ![PopIdx] = pt]
                  cands2   == [r \in DOMAIN ret.candidates |->
                                 WithPopularity(ret.candidates[r], pv)]
                  cands3   == [r \in DOMAIN ret.candidates |->
                                 WithoutPopularity(ret.candidates[r])]
              IN  /\ IdsAndScores(RankReccobeatsCandidates(cands2, target2, weights2).results)
                        = IdsAndScores(ret.results)
                  /\ IdsAndScores(RankReccobeatsCandidates(cands3, target2, weights2).results)
                        = IdsAndScores(ret.results)
        /\ (\A i \in 1..F : i # PopIdx => ret.weights[i] = 0)
              => \A p \in DOMAIN ret.results : ret.results[p].match_score_squared = 0

\* a popularity-only weight of 10.0, a candidate without popularity, a target that asks for it
C7_Witness ==
    /\ RankOk
    /\ ret.weights = <<0, 0, 0, 0, 0, 20>>
    /\ Len(ret.results) = 2
    /\ ret.results[1].track.id = "sparse"
    /\ ret.results[2].track.id = "bad"
    /\ Len(ret.target) = F
    /\ NormalizeValue("popularity", ret.target[PopIdx]) = Unit
    /\ ret.results[1].match_score_squared = 0

-----------------------------------------------------------------------------
(* LocalSearchParams.get_search_data: the Weighted Target sent to the engine *)

MIN_POPULARITY == 20

\* f"{feature}_weight", the FeatureWeights field that get_search_data reads
WeightField ==
    [acousticness |-> "acousticness_weight",
     danceability |-> "danceability_weight",
     energy       |-> "energy_weight",
     tempo        |-> "tempo_weight",
     valence      |-> "valence_weight",
     popularity   |-> "popularity_weight"]

WeightFieldNames == {WeightField[f] : f \in FeatureNames}

\* float(val): popularity is an Optional[int], every other field already a float
ToFloat(feature, val) ==
    IF feature = "popularity" THEN val[1] * Unit ELSE val[1]

\* the values AudioFeatures accepts for a field (ge/le bounds), or None
FieldValues(feature) ==
    IF feature = "popularity" THEN {None, Num(MIN_POPULARITY), Num(PopularityMax)}
    ELSE IF feature = "tempo" THEN {None, Num(0), Num(TempoMax * Unit)}
    ELSE {None, Num(0), Num(Unit)}

AudioFeatures ==
    [acousticness : FieldValues("acousticness"),
     danceability : FieldValues("danceability"),
     energy       : FieldValues("energy"),
     tempo        : FieldValues("tempo"),
     valence      : FieldValues("valence"),
     popularity   : FieldValues("popularity")]

\* FeatureWeights: the defaults (0.5), all 1.0, and a mix of 0.0, 0.5 and 1.0
FeatureWeights ==
    { [w \in WeightFieldNames |-> 1],
      [w \in WeightFieldNames |-> 2],
      [w \in WeightFieldNames |->
         IF w \in {"acousticness_weight", "tempo_weight"} THEN 0
         ELSE IF w \in {"danceability_weight", "valence_weight"} THEN 1 ELSE 2] }

\* the loop body with the None branch dropped: absent features are skipped
GetSearchDataTo_SkipNone(self, acc, feature) ==
    LET val    == self.target_features[feature]
        weight == self.feature_weights[WeightField[feature]]
    IN  IF val = None
        THEN acc
        ELSE [targets |-> Append(acc.targets, Num(ToFloat(feature, val))),
              weights |-> Append(acc.weights, weight)]

\* one iteration of the loop over FEATURE_ORDER
GetSearchDataTo(self, acc, feature) ==
    LET val    == self.target_features[feature]
        weight == self.feature_weights[WeightField[feature]]
    IN  IF val = None
        THEN [targets |-> Append(acc.targets, Num(0)),
              weights |-> Append(acc.weights, 0)]
        ELSE [targets |-> Append(acc.targets, Num(ToFloat(feature, val))),
              weights |-> Append(acc.weights, weight)]

RECURSIVE GetSearchDataLoop(_, _)
GetSearchDataLoop(self, n) ==
    IF n = 0 THEN [targets |-> <<>>, weights |-> <<>>]
    ELSE GetSearchDataTo(self, GetSearchDataLoop(self, n - 1), FEATURE_ORDER[n])

GetSearchData(self) == GetSearchDataLoop(self, Len(FEATURE_ORDER))

GetSearchDataCall(t) ==
    /\ pc[t] = "idle"
    /\ pc' = [pc EXCEPT ![t] = "get_search_data"]
    /\ ret' = NoRet
    /\ UNCHANGED <<disk, numpy, is_loaded, features_matrix, metadata_df, reads, full_df, app>>

GetSearchDataReturn(t) ==
    /\ pc[t] = "get_search_data"
    /\ \E tf \in AudioFeatures, fw \in FeatureWeights :
          LET self == [target_features |-> tf, feature_weights |-> fw]
              out  == GetSearchData(self)
          IN  ret' = [op |-> "get_search_data", self |-> self,
                      targets |-> out.targets, weights |-> out.weights]
    /\ pc' = [pc EXCEPT ![t] = "idle"]
    /\ UNCHANGED <<disk, numpy, is_loaded, features_matrix, metadata_df, reads, full_df, app>>

NextTarget == GetSearchDataCall(1) \/ GetSearchDataReturn(1)

SpecTarget == InitRank /\ [][NextTarget]_vars

\* C8: get_search_data returns two vectors of length F; at index i, for
\* FEATURE_ORDER[i], an absent target value gives target 0.0 and weight 0.0
\* whatever weight was supplied, and a present one gives the supplied value
\* and the supplied weight of that same feature.
C8_WeightedTarget ==
    ret.op = "get_search_data" =>
        /\ Len(ret.targets) = F
        /\ Len(ret.weights) = F
        /\ \A i \in 1..F :
              LET feature  == FEATURE_ORDER[i]
                  val      == ret.self.target_features[feature]
                  supplied == ret.self.feature_weights[WeightField[feature]]
              IN  IF val = None
                  THEN ret.targets[i] = Num(0) /\ ret.weights[i] = 0
                  ELSE /\ ret.targets[i] =
                            Num(IF feature = "popularity" THEN val[1] * Unit ELSE val[1])
                       /\ ret.weights[i] = supplied

\* absent features with a non-zero supplied weight next to present ones,
\* one of them present with value 0.0
C8_Witness ==
    /\ ret.op = "get_search_data"
    /\ ret.self.target_features["acousticness"] = Num(0)
    /\ ret.self.feature_weights["acousticness_weight"] = 2
    /\ ret.self.target_features["danceability"] = None
    /\ ret.self.feature_weights["danceability_weight"] = 2
    /\ ret.self.target_features["tempo"] = Num(TempoMax * Unit)
    /\ ret.self.target_features["popularity"] = Num(MIN_POPULARITY)
    /\ ret.weights = <<2, 0, 0, 2, 0, 2>>
    /\ ret.targets[6] = Num(MIN_POPULARITY * Unit)

-----------------------------------------------------------------------------
(* SearchEngine._normalize_value called on its own *)

\* the schema features and one name outside the schema (the final else branch)
NormFeatures == FeatureNames \cup {"speechiness"}

\* raw values: None, quarters from -1.0 to 2.0, and 25-steps from -25 to 450
RawValues ==
    {None} \cup {Num(k * (Unit \div 4)) : k \in -4..8}
           \cup {Num(k * 25 * Unit) : k \in -1..18}
           \cup {Num(-10 * Unit), Num(400 * Unit)}

NormalizeCall(t) ==
    /\ pc[t] = "idle"
    /\ pc' = [pc EXCEPT ![t] = "normalize"]
    /\ ret' = NoRet
    /\ UNCHANGED <<disk, numpy, is_loaded, features_matrix, metadata_df, reads, full_df, app>>

NormalizeReturn(t) ==
    /\ pc[t] = "normalize"
    /\ \E feature_name \in NormFeatures, value \in RawValues :
          ret' = [op |-> "normalize", status |-> "ok", feature_name |-> feature_name,
                  value |-> value, result |-> NormalizeValue(feature_name, value)]
    /\ pc' = [pc EXCEPT ![t] = "idle"]
    /\ UNCHANGED <<disk, numpy, is_loaded, features_matrix, metadata_df, reads, full_df, app>>

NextNorm == NormalizeCall(1) \/ NormalizeReturn(1)

SpecNorm == InitRank /\ [][NextNorm]_vars

Clamp(x, lo, hi) == IF x < lo THEN lo ELSE IF x > hi THEN hi ELSE x

\* C9: _normalize_value returns normally with a value in [0,1]; for a numeric
\* x it is clamp(x, 0, 250) / 250 for tempo, clamp(x, 0, 100) / 100 for
\* popularity and clamp(x, 0, 1) for any other feature, so values below or
\* above the range map to the nearest bound.
C9_Normalizer ==
    ret.op = "normalize" =>
        /\ ret.status = "ok"
        /\ ret.result >= 0
        /\ ret.result <= Unit
        /\ ret.value # None =>
              LET x == ret.value[1]
              IN  ret.result =
                    IF ret.feature_name = "tempo" THEN Clamp(x, 0, 250 * Unit) \div 250
                    ELSE IF ret.feature_name = "popularity" THEN Clamp(x, 0, 100 * Unit) \div 100
                    ELSE Clamp(x, 0, Unit)

\* a tempo of 400 BPM comes back as the upper bound 1.0
C9_Witness ==
    /\ ret.op = "normalize"
    /\ ret.feature_name = "tempo"
    /\ ret.value = Num(400 * Unit)
    /\ ret.result = Unit

-----------------------------------------------------------------------------
(* One engine shared by several callers: load_data takes no lock, so the
   callers' statements interleave freely *)

ConcDisks == ScoreDisks \cup {MissingDisk, StaleDisk}

ConcTargets == {Floats(<<Unit, 0, 0, 0, 0, 0>>)}

ConcWeights == {<<2, 2, 2, 2, 2, 2>>, <<2, 2>>}

ConcTopNs == {1, MaxTopN}

SearchDbReturnConc(t) ==
    /\ pc[t] = "compute"
    /\ \E tv \in ConcTargets, wv \in ConcWeights, n \in ConcTopNs :
        SearchDbCompute(t, tv, wv, n)

StepConc(t) ==
    \/ SearchDbCall(t)
    \/ LoadDataEnter(t)
    \/ LoadDataRead(t)
    \/ LoadDataSetMatrix(t)
    \/ LoadDataSetMeta(t)
    \/ LoadDataSetFlag(t)
    \/ SearchDbReturnConc(t)

InitConc == \E d \in ConcDisks : InitWith(d, OneBuild)

NextConc == \E t \in Callers : StepConc(t)

SpecConc == InitConc /\ [][NextConc]_vars

\* C10: on an engine whose catalog can be loaded, however the first callers
\* of search_db interleave, the backing storage is read at most once.
C10_SingleLoad ==
    disk \in GoodDisks => reads <= 1

-----------------------------------------------------------------------------
(* load_data called directly by a single caller, next to search_db *)

\* the three fields of a SearchEngine object
Engine ==
    [is_loaded |-> is_loaded, features_matrix |-> features_matrix, metadata_df |-> metadata_df]

\* SearchEngine(): lines 15-17
NewEngine == [is_loaded |-> FALSE, features_matrix |-> NoData, metadata_df |-> NoData]

SetEngine(e) ==
    /\ is_loaded' = e.is_loaded
    /\ features_matrix' = e.features_matrix
    /\ metadata_df' = e.metadata_df

\* load_data without the test of line 20
LoadDataOutcome_NoFlagTest(e, r) ==
    IF ~disk.exists
    THEN [status |-> "FileNotFoundError", read |-> FALSE, engine |-> e]
    ELSE IF {f \in FeatureNames : f \notin disk.columns} # {}
    THEN [status |-> "ValueError", read |-> TRUE, engine |-> e]
    ELSE [status |-> "ok", read |-> TRUE,
          engine |-> [is_loaded       |-> TRUE,
                      features_matrix |-> [rid |-> r + 1, rows |-> ToMatrix(disk.rows)],
                      metadata_df     |-> [rid |-> r + 1, rows |-> ToMeta(disk.rows)]]]

\* lines 19-45 run to their end by the only caller, on engine e after r reads
LoadDataOutcome(e, r) ==
    IF e.is_loaded
    THEN [status |-> "ok", read |-> FALSE, engine |-> e]
    ELSE IF ~disk.exists
    THEN [status |-> "FileNotFoundError", read |-> FALSE, engine |-> e]
    ELSE IF {f \in FeatureNames : f \notin disk.columns} # {}
    THEN [status |-> "ValueError", read |-> TRUE, engine |-> e]
    ELSE [status |-> "ok", read |-> TRUE,
          engine |-> [is_loaded       |-> TRUE,
                      features_matrix |-> [rid |-> r + 1, rows |-> ToMatrix(disk.rows)],
                      metadata_df     |-> [rid |-> r + 1, rows |-> ToMeta(disk.rows)]]]

\* the effect of an uninterrupted load_data on the engine and the read count
Loaded(o) ==
    /\ o.read => reads < MaxReads
    /\ reads' = IF o.read THEN reads + 1 ELSE reads
    /\ SetEngine(o.engine)

LoadDataCall(t) ==
    /\ pc[t] = "idle"
    /\ LET o == LoadDataOutcome(Engine, reads)
       IN  /\ Loaded(o)
           /\ ret' = [op |-> "load_data", at |-> "load_data",
                      status |-> o.status, read |-> o.read]
    /\ UNCHANGED <<disk, numpy, pc, full_df, app>>

NextLoad == Step(1) \/ LoadDataCall(1)

SpecLoad == InitConc /\ [][NextLoad]_vars

\* C11: once the engine is loaded, no step of a later load_data or search_db
\* call reads the storage, and the feature matrix, the metadata table and the
\* loaded flag stay exactly as they are.
C11_LoadOnce ==
    [][is_loaded =>
          /\ is_loaded'
          /\ reads' = reads
          /\ features_matrix' = features_matrix
          /\ metadata_df' = metadata_df]_vars

\* a load_data call that returned at line 21 on an engine loaded by one read
C11_Witness ==
    /\ is_loaded
    /\ reads = 1
    /\ ret.op = "load_data"
    /\ ret.status = "ok"
    /\ ~ret.read
    /\ features_matrix.rid = 1
    /\ metadata_df.rid = 1
    /\ Len(features_matrix.rows) = 2

-----------------------------------------------------------------------------
(* run_pipeline_v2: one catalog-search request after another in one process *)

\* what get_gemini_interpretation hands back: nothing asked for, one feature
\* asked for, every feature asked for at its upper bound
PipeTargets ==
    { [f \in FeatureNames |-> None],
      [f \in FeatureNames |-> IF f = "acousticness" THEN Num(Unit) ELSE None],
      [f \in FeatureNames |->
          IF f = "tempo" THEN Num(TempoMax * Unit)
          ELSE IF f = "popularity" THEN Num(PopularityMax) ELSE Num(Unit)] }

LocalSearchParams ==
    {[target_features |-> tf, feature_weights |-> fw] : tf \in PipeTargets, fw \in FeatureWeights}

\* lines 40-62: a new SearchEngine, its lazy load, the search, the empty test
RunPipelineV2(t) ==
    /\ pc[t] = "idle"
    /\ \E ai_params_object \in LocalSearchParams :
          LET out           == GetSearchData(ai_params_object)
              search_engine == NewEngine
              o             == LoadDataOutcome(search_engine, reads)
          IN  /\ Loaded(o)
              /\ IF o.status # "ok"
                 THEN ret' = [op |-> "run_pipeline_v2", at |-> "load_data", status |-> o.status]
                 ELSE LET sr == SearchDbOn(o.engine.features_matrix.rows,
                                           o.engine.metadata_df.rows,
                                           out.targets, out.weights, DEFAULT_PLAYLIST_LENGTH)
                          db_recommendations == sr.results
                      IN  ret' = [op |-> "run_pipeline_v2", at |-> "run_pipeline_v2",
                                  status |-> IF sr.status # "ok" THEN sr.status
                                             ELSE IF db_recommendations = <<>> THEN "ValueError"
                                             ELSE "ok",
                                  tracks |-> db_recommendations,
                                  targets |-> out.targets, weights |-> out.weights]
    /\ UNCHANGED <<disk, numpy, pc, full_df, app>>

-----------------------------------------------------------------------------
(* run_pipeline_v1: seeds, the recommendation API, the re-ranking *)

MaxSeeds == 2

\* get_id_by_song for each AI-suggested seed: a Spotify id or None
SeedResolutions ==
    UNION {[1..n -> {"found", "unknown"}] : n \in 1..MaxSeeds}

SeedId(resolved, i) == IF resolved[i] = "found" THEN Num(<<"seed", i>>) ELSE None

\* what get_recommendations_ids_by_params can answer
RecLists ==
    { <<>>,
      <<[spot_id |-> "a", rec_id |-> "r1"]>>,
      <<[spot_id |-> "a", rec_id |-> "r1"], [spot_id |-> "b", rec_id |-> "r2"]>> }

\* the loop of lines 56-67 keeping every seed, found or not
RECURSIVE ValidSeedIds_KeepsAll(_, _)
ValidSeedIds_KeepsAll(resolved, n) ==
    IF n = 0 THEN <<>>
    ELSE Append(ValidSeedIds_KeepsAll(resolved, n - 1),
                IF resolved[n] = "found" THEN <<"seed", n>> ELSE <<"", n>>)

\* lines 53-67: the ids of the seeds that were found, in order
RECURSIVE ValidSeedIds(_, _)
ValidSeedIds(resolved, n) ==
    IF n = 0 THEN <<>>
    ELSE LET seed_id == SeedId(resolved, n)
         IN  IF seed_id # None
             THEN Append(ValidSeedIds(resolved, n - 1), seed_id[1])
             ELSE ValidSeedIds(resolved, n - 1)

\* ",".join(valid_seed_ids) (line 76): the ids with a comma between them
RECURSIVE Join(_)
Join(ids) ==
    IF ids = <<>> THEN <<>>
    ELSE IF Len(ids) = 1 THEN <<ids[1]>>
    ELSE <<ids[1], <<",">>>> \o Join(Tail(ids))

\* lines 47-95; _get_top_songs hands the whole list to get_audio_features,
\* which indexes it with "rec_id" (rb_functions.py line 13)
RunPipelineV1(t) ==
    /\ pc[t] = "idle"
    /\ \E resolved \in SeedResolutions, answer \in RecLists :
          LET valid_seed_ids == ValidSeedIds(resolved, Len(resolved))
          IN  IF valid_seed_ids = <<>>
              THEN ret' = [op |-> "run_pipeline_v1", at |-> "seeds", status |-> "ValueError",
                           resolved |-> resolved, seeds_sent |-> <<>>]
              ELSE LET rec_track_ids == answer
                   IN  ret' = [op |-> "run_pipeline_v1",
                               at |-> IF rec_track_ids = <<>> THEN "recommendations"
                                      ELSE "get_audio_features",
                               status |-> IF rec_track_ids = <<>> THEN "ValueError"
                                          ELSE "TypeError",
                               resolved |-> resolved,
                               seeds_sent |-> <<Join(valid_seed_ids)>>,
                               rec_track_ids |-> rec_track_ids]
    /\ UNCHANGED <<disk, numpy, is_loaded, features_matrix, metadata_df, reads, pc, full_df, app>>

NextPipe == RunPipelineV2(1) \/ RunPipelineV1(1)

SpecPipe == InitConc /\ [][NextPipe]_vars

\* C12: in one process, once a request has read a loadable catalog from the
\* storage, no later catalog-search request reads the storage again.
C12_LoadedOncePerProcess ==
    [][(disk \in GoodDisks /\ reads >= 1) => reads' = reads]_vars

-----------------------------------------------------------------------------
(* What a caller that finds the engine loaded can see *)

\* C13: whenever _is_loaded is true, features_matrix and metadata_df are both
\* set, have the same number of rows and come from the same read of the
\* storage, however the callers of search_db interleave.
C13_NoTornCatalog ==
    is_loaded =>
        /\ features_matrix.rid # 0
        /\ metadata_df.rid # 0
        /\ Len(features_matrix.rows) = Len(metadata_df.rows)
        /\ features_matrix.rid = metadata_df.rid

-----------------------------------------------------------------------------
(* Errors of the lazy load *)

LoadFailed == ret.op = "search_db" /\ ret.at = "load_data"

\* C14: with the catalog file missing or lacking a feature column, the lazy
\* load raises (FileNotFoundError, ValueError), search_db passes the error on
\* without any result list and never reaches its ranking, and the engine stays
\* unloaded with no matrix and no metadata, so the next call loads again.
C14_LoadErrors ==
    /\ LoadFailed =>
          /\ ret.status = IF ~disk.exists THEN "FileNotFoundError" ELSE "ValueError"
          /\ "results" \notin DOMAIN ret
          /\ ~is_loaded
          /\ features_matrix = NoData
          /\ metadata_df = NoData
    /\ disk \notin GoodDisks =>
          /\ ~is_loaded
          /\ \A t \in DOMAIN pc : pc[t] \in {"idle", "load_data", "read"}
          /\ ret.op = "search_db" => LoadFailed

\* a second search_db call on a catalog without the popularity column read
\* the file again and failed again
C14_Witness ==
    /\ LoadFailed
    /\ disk = StaleDisk
    /\ reads = 2
    /\ ret.status = "ValueError"

-----------------------------------------------------------------------------
(* search_db called with vectors of any length *)

\* a whole search_db call by the only caller: the call ...
SearchDbCallAny(t) ==
    /\ pc[t] = "idle"
    /\ pc' = [pc EXCEPT ![t] = "search_db"]
    /\ ret' = NoRet
    /\ UNCHANGED <<disk, numpy, is_loaded, features_matrix, metadata_df, reads, full_df, app>>

\* ... and lines 161-198 with the arguments it was given
SearchDbReturnAny(t) ==
    /\ pc[t] = "search_db"
    /\ \E tv \in TargetVectors \cup OddTargets, wv \in WeightVectors \cup OddWeights,
          n \in TopNs :
          LET o == LoadDataOutcome(Engine, reads)
          IN  /\ Loaded(o)
              /\ ret' = IF o.status # "ok"
                        THEN [op |-> "search_db", at |-> "load_data", status |-> o.status,
                              target |-> tv, weights |-> wv, top_n |-> n]
                        ELSE SearchDbOn(o.engine.features_matrix.rows,
                                        o.engine.metadata_df.rows, tv, wv, n)
    /\ pc' = [pc EXCEPT ![t] = "idle"]
    /\ UNCHANGED <<disk, numpy, full_df, app>>

NextLen == SearchDbCallAny(1) \/ SearchDbReturnAny(1)

SpecLen == InitConc /\ [][NextLen]_vars

\* C15 as stated: every search_db call given a target or weights vector whose
\* length is not F raises ValueError.
C15_Original ==
    (ret.op = "search_db" /\ (Len(ret.target) # F \/ Len(ret.weights) # F)) =>
        ret.status = "ValueError"

\* C15: a search_db call whose lazy load succeeds raises ValueError, and gives
\* no results, exactly when the target or the weights vector does not have
\* length F; a ranking is returned only when both have length F, and a call
\* whose load fails raises the load's error whatever the lengths.
C15_LengthCheck ==
    ret.op = "search_db" =>
        IF ret.at = "load_data"
        THEN /\ ret.status = IF ~disk.exists THEN "FileNotFoundError" ELSE "ValueError"
             /\ disk \notin GoodDisks
        ELSE /\ disk \in GoodDisks
             /\ ret.status \in {"ok", "ValueError"}
             /\ ret.status = "ValueError" <=> (Len(ret.target) # F \/ Len(ret.weights) # F)
             /\ ret.status = "ValueError" => ret.results = <<>>
             /\ ret.status = "ok" => Len(ret.target) = F /\ Len(ret.weights) = F

\* a target one element short with weights of length F, on a loaded catalog
C15_Witness ==
    /\ ret.op = "search_db"
    /\ ret.at = "search_db"
    /\ ret.status = "ValueError"
    /\ Len(ret.target) = F - 1
    /\ Len(ret.weights) = F
    /\ is_loaded
    /\ Len(features_matrix.rows) = 2

-----------------------------------------------------------------------------
(* Vector lengths in re-ranking mode *)

\* C16: rank_reccobeats_candidates, given candidates and a target or weights
\* vector whose length is not F, ends in an error and returns no ranking.
C16_LengthReported ==
    (ret.op = "rank" /\ ret.candidates # <<>>
        /\ (Len(ret.target) # F \/ Len(ret.weights) # F))
    => ret.status # "ok"

-----------------------------------------------------------------------------
(* Requests that find nothing *)

\* C17: a request whose candidate source answers with an empty list
\* (run_pipeline_v1) or whose catalog has no rows (run_pipeline_v2) ends
\* normally with an empty ranked list, not with an error.
C17_EmptyIsNotAnError ==
    /\ (ret.op = "run_pipeline_v1" /\ ret.seeds_sent # <<>> /\ ret.rec_track_ids = <<>>)
          => ret.status = "ok"
    /\ (ret.op = "run_pipeline_v2" /\ disk \in GoodDisks /\ disk.rows = <<>>)
          => (ret.status = "ok" /\ ret.tracks = <<>>)

-----------------------------------------------------------------------------
(* Re-ranking nothing *)

\* C18: rank_reccobeats_candidates given an empty candidate list returns an
\* empty list and raises nothing, whatever the target and the weights are,
\* vectors of a wrong length included.
C18_EmptyCandidates ==
    (ret.op = "rank" /\ ret.candidates = <<>>) =>
        (ret.status = "ok" /\ ret.results = <<>>)

\* no candidates, a target of length 5 and a single weight
C18_Witness ==
    /\ ret.op = "rank"
    /\ ret.candidates = <<>>
    /\ Len(ret.target) = F - 1
    /\ Len(ret.weights) = 1
    /\ ret.status = "ok"
    /\ ret.results = <<>>

-----------------------------------------------------------------------------
(* The batched distance against the distance of one row *)

\* the score of one row scored alone, as a matrix of that single row
ScoredAlone(row, target_arr, weights_arr) ==
    CalculateWeightedDistance(<<row>>, target_arr, weights_arr)[1]

\* C19: the score the batched computation gives row r of an N-row matrix is
\* the score of row r scored alone against the same target and weights, so
\* it depends neither on the other rows nor on where the row stands: equal
\* rows at different positions get equal scores.
C19_BatchedRowWise ==
    /\ SearchOk =>
          LET scores == SearchScores(features_matrix.rows, ret.target, ret.weights)
          IN  /\ Len(scores) = NumRows
              /\ \A r \in 1..NumRows :
                    scores[r] = ScoredAlone(features_matrix.rows[r],
                                            NormTarget(ret.target), ret.weights)
              /\ \A j \in DOMAIN ret.results :
                    \E r \in 1..NumRows :
                        /\ ret.results[j].track_id = metadata_df.rows[r].track_id
                        /\ ret.results[j].score_squared = scores[r]
    /\ (RankOk /\ Len(ret.target) = F) =>
          /\ \A j \in DOMAIN ret.results :
                ret.results[j].match_score_squared =
                    ScoredAlone(CandidateRow(ret.results[j].track),
                                NormTarget(ret.target), ForcePopularity(ret.weights))
          /\ \A j1, j2 \in DOMAIN ret.results :
                ret.results[j1].track = ret.results[j2].track
                => ret.results[j1].match_score_squared = ret.results[j2].match_score_squared

\* two candidates, the same track twice, scored the same and not zero
C19_Witness ==
    /\ RankOk
    /\ Len(ret.target) = F
    /\ Len(ret.results) = 2
    /\ ret.results[1].track = ret.results[2].track
    /\ ret.results[1].match_score_squared > 0
    /\ ret.results[1].match_score_squared = ret.results[2].match_score_squared

-----------------------------------------------------------------------------
(* A vector against itself *)

EqualWeights == {[i \in 1..F |-> w] : w \in {0, 1, 2, 20}}

\* C20: a feature vector scored against itself with all weights equal gives
\* 0; a re-ranking candidate whose raw values are the raw target values gets
\* match_score_squared 0; a catalog row that the target normalizes to gets
\* score 0, and then the best result has score 0.
C20_Identity ==
    /\ SearchOk =>
          LET scores == SearchScores(features_matrix.rows, ret.target, ret.weights)
          IN  /\ \A r \in 1..NumRows, w \in EqualWeights :
                    ScoredAlone(features_matrix.rows[r], features_matrix.rows[r], w) = 0
              /\ \A r \in 1..NumRows :
                    NormTarget(ret.target) = features_matrix.rows[r] =>
                        /\ scores[r] = 0
                        /\ ret.results[1].score_squared = 0
                        /\ \A j \in DOMAIN ret.results :
                              ret.results[j].track_id = metadata_df.rows[r].track_id
                              => ret.results[j].score_squared = 0
    /\ (RankOk /\ Len(ret.target) = F) =>
          \A j \in DOMAIN ret.results :
              /\ \A w \in EqualWeights :
                    ScoredAlone(CandidateRow(ret.results[j].track),
                                CandidateRow(ret.results[j].track), w) = 0
              /\ RawRow(ret.results[j].track) = ret.target
                    => ret.results[j].match_score_squared = 0

\* a raw target (tempo 250 BPM, popularity 50) that normalizes to the second
\* of two catalog rows, every weight non-zero: that row comes first with score 0
C20_Witness ==
    /\ SearchOk
    /\ NumRows = 2
    /\ \A i \in 1..F : ret.weights[i] > 0
    /\ ret.target[4] = Num(TempoMax * Unit)
    /\ NormTarget(ret.target) = features_matrix.rows[2]
    /\ ret.results[1].track_id = metadata_df.rows[2].track_id
    /\ ret.results[1].score_squared = 0

-----------------------------------------------------------------------------
(* Raw targets against normalized rows *)

TempoIdx == Index(FEATURE_ORDER, "tempo")

WithoutWeight(weights, i) == [weights EXCEPT ![i] = 0]

-----------------------------------------------------------------------------
(* Candidates that lack a feature *)

\* the candidate with every feature it lacks written out as 0.0
FilledWithZero(track) ==
    [id |-> track.id,
     feats |-> [f \in FeatureNames |->
                  IF f \in DOMAIN track.feats THEN track.feats[f] ELSE Num(0)]]

\* C22: in re-ranking a candidate that lacks a feature scores exactly as the
\* same candidate with that feature at 0.0; the feature is not masked: with a
\* non-zero weight on it (popularity aside) and a non-zero normalized target
\* it adds weight * target^2 to the score.
C22_MissingIsZero ==
    (RankOk /\ Len(ret.target) = F) =>
        \A j \in DOMAIN ret.results :
            LET track == ret.results[j].track
                w     == ForcePopularity(ret.weights)
                t     == NormTarget(ret.target)
            IN  /\ ret.results[j].match_score_squared =
                      ScoredAlone(CandidateRow(FilledWithZero(track)), t, w)
                /\ \A i \in 1..F :
                      FEATURE_ORDER[i] \notin DOMAIN track.feats =>
                          /\ ret.results[j].match_score_squared =
                                ScoredAlone(CandidateRow(track), t, WithoutWeight(w, i))
                                + w[i] * t[i] * t[i]
                          /\ (w[i] > 0 /\ t[i] > 0) =>
                                ret.results[j].match_score_squared
                                > ScoredAlone(CandidateRow(track), t, WithoutWeight(w, i))

\* the candidate without acousticness, weight 1.0 on acousticness only, target
\* acousticness 1.0: the score is 1.0 * (0 - 1.0)^2
C22_Witness ==
    /\ RankOk
    /\ Len(ret.results) = 1
    /\ ret.results[1].track.id = "sparse"
    /\ "acousticness" \notin DOMAIN ret.results[1].track.feats
    /\ ret.weights = <<2, 0, 0, 0, 0, 0>>
    /\ Len(ret.target) = F
    /\ ret.target[1] = Num(Unit)
    /\ ret.results[1].match_score_squared = 2 * Unit * Unit

-----------------------------------------------------------------------------
(* The catalog once it is loaded *)

\* C23: a loaded catalog holds the rows of the file, in the file's order,
\* read by one read, and stays so: a step of search_db on a loaded engine
\* changes neither features_matrix nor metadata_df, and the storage is read
\* only by the lazy load of an engine that is not loaded yet.
C23_CatalogImmutable ==
    /\ [](is_loaded =>
            /\ reads = 1
            /\ features_matrix.rows = ToMatrix(disk.rows)
            /\ metadata_df.rows = ToMeta(disk.rows)
            /\ Len(features_matrix.rows) = Len(metadata_df.rows))
    /\ [][/\ is_loaded => (features_matrix' = features_matrix /\ metadata_df' = metadata_df)
          /\ reads' # reads => (~is_loaded /\ pc[1] = "read" /\ reads' = reads + 1)]_vars

\* a search returned the three rows of a catalog loaded by its one read; the
\* best row is not the first row of the file, which is still the first row
\* of the matrix
C23_Witness ==
    /\ is_loaded
    /\ reads = 1
    /\ SearchOk
    /\ Len(ret.results) = 3
    /\ ret.results[1].track_id = metadata_df.rows[3].track_id
    /\ ret.results[1].score_squared < ret.results[2].score_squared
    /\ features_matrix.rows = ToMatrix(disk.rows)
    /\ metadata_df.rows[1].track_id = <<"id", 1>>

-----------------------------------------------------------------------------
(* The same call made twice, with another call in between *)

\* a whole search_db call that leaves the matrix sorted by score
SearchDbCallOn_SortsInPlace(e, r, target_vector, weights_vector, top_n) ==
    LET o   == LoadDataOutcome(e, r)
        out == SearchDbOn(o.engine.features_matrix.rows, o.engine.metadata_df.rows,
                          target_vector, weights_vector, top_n)
    IN  IF o.status # "ok"
        THEN [engine |-> o.engine, reads |-> IF o.read THEN r + 1 ELSE r,
              out |-> [op |-> "search_db", at |-> "load_data", status |-> o.status]]
        ELSE IF out.status # "ok"
        THEN [engine |-> o.engine, reads |-> IF o.read THEN r + 1 ELSE r, out |-> out]
        ELSE LET order == ArgSort(SearchScores(o.engine.features_matrix.rows,
                                               target_vector, weights_vector))
                 m     == o.engine.features_matrix
             IN  [engine |-> [o.engine EXCEPT
                                !.features_matrix =
                                    [m EXCEPT !.rows = [k \in DOMAIN order |-> m.rows[order[k]]]]],
                  reads |-> IF o.read THEN r + 1 ELSE r,
                  out |-> out]

\* a whole search_db call (lines 161-198) by the only caller on engine e after
\* r reads: the engine and the read count it leaves, and what it returns
SearchDbCallOn(e, r, target_vector, weights_vector, top_n) ==
    LET o == LoadDataOutcome(e, r)
    IN  [engine |-> o.engine,
         reads  |-> IF o.read THEN r + 1 ELSE r,
         out    |-> IF o.status # "ok"
                    THEN [op |-> "search_db", at |-> "load_data", status |-> o.status]
                    ELSE SearchDbOn(o.engine.features_matrix.rows, o.engine.metadata_df.rows,
                                    target_vector, weights_vector, top_n)]

TwiceTargets == {Floats(<<Unit, 0, 0, 0, 0, 0>>), Floats(<<Half, Half, Half, 125 * Unit, Half, 50 * Unit>>)}

TwiceWeights == {<<2, 2, 2, 2, 2, 2>>, <<0, 0, 0, 0, 0, 0>>, <<2, 2>>}

\* the caller starts the three calls
TwiceCall(t) ==
    /\ pc[t] = "idle"
    /\ pc' = [pc EXCEPT ![t] = "twice"]
    /\ ret' = NoRet
    /\ UNCHANGED <<disk, numpy, is_loaded, features_matrix, metadata_df, reads, full_df, app>>

\* search_db(x); search_db(y); search_db(x) on one engine
SearchDbTwice(t) ==
    /\ pc[t] = "twice"
    /\ \E tv \in TwiceTargets, wv \in TwiceWeights, n \in ConcTopNs,
          tv2 \in TwiceTargets, wv2 \in TwiceWeights, n2 \in ConcTopNs :
          LET c1 == SearchDbCallOn(Engine, reads, tv, wv, n)
              c2 == SearchDbCallOn(c1.engine, c1.reads, tv2, wv2, n2)
              c3 == SearchDbCallOn(c2.engine, c2.reads, tv, wv, n)
          IN  /\ c3.reads <= MaxReads
              /\ reads' = c3.reads
              /\ SetEngine(c3.engine)
              /\ ret' = [op |-> "search_db_twice", first |-> c1.out, between |-> c2.out,
                         again |-> c3.out]
    /\ pc' = [pc EXCEPT ![t] = "idle"]
    /\ UNCHANGED <<disk, numpy, full_df, app>>

TwiceCandidates == {cl \in CandidateLists : Len(cl) = 2 /\ cl[1] = CandidatePool[1]}

\* rank(x); rank(y); rank(x): a static method, it has no engine to change
RankTwice(t) ==
    /\ pc[t] = "twice"
    /\ \E cl \in TwiceCandidates, cl2 \in TwiceCandidates, tv \in TwiceTargets,
          wv \in TwiceWeights :
          LET c1 == RankReccobeatsCandidates(cl, tv, wv)
              c2 == RankReccobeatsCandidates(cl2, tv, wv)
              c3 == RankReccobeatsCandidates(cl, tv, wv)
          IN  ret' = [op |-> "rank_twice", first |-> c1, between |-> c2, again |-> c3]
    /\ pc' = [pc EXCEPT ![t] = "idle"]
    /\ UNCHANGED <<disk, numpy, is_loaded, features_matrix, metadata_df, reads, full_df, app>>

InitTwice == \E d \in ConcDisks, np \in Builds : InitWith(d, np)

NextTwice == TwiceCall(1) \/ SearchDbTwice(1) \/ RankTwice(1)

SpecTwice == InitTwice /\ [][NextTwice]_vars

-----------------------------------------------------------------------------
(* songs_DB/preprocess.py: the batch step that builds the catalog files *)

MaxRaw == 3

NUMERIC_FEATURES ==
    <<"danceability", "energy", "valence", "speechiness", "acousticness",
      "instrumentalness", "tempo", "popularity">>

MinDurationMs == 60000

MaxDurationMs == 900000

\* records of dataset.csv: raw values, tempo in BPM, popularity in 0..100
RawRecord(id, duration, dance, energy, valence, acoustic, tempo, pop) ==
    [track_id         |-> <<"id", id>>,
     track_name       |-> <<"name", id>>,
     artists          |-> <<"artist", id>>,
     album_name       |-> <<"album", id>>,
     track_genre      |-> <<"genre", id>>,
     duration_ms      |-> duration,
     danceability     |-> dance,
     energy           |-> energy,
     valence          |-> valence,
     speechiness      |-> Num(0),
     acousticness     |-> acoustic,
     instrumentalness |-> Num(Half),
     tempo            |-> tempo,
     popularity       |-> pop]

RawPool ==
    << RawRecord(1, 200000, Num(Half), Num(Unit), Num(0), Num(Half), Num(125 * Unit), Num(50 * Unit)),
       RawRecord(2, 300000, Num(Unit), Num(Half), Num(Half), Num(0), Num(250 * Unit), Num(100 * Unit)),
       RawRecord(3, 240000, Num(0), Num(0), Num(Unit), Num(Unit), Num(125 * Unit), Num(0)),
       \* the same track once more, a track too short, one without tempo, one with a hole
       RawRecord(1, 200000, Num(Unit), Num(Unit), Num(Unit), Num(Unit), Num(250 * Unit), Num(100 * Unit)),
       RawRecord(4, 30000, Num(Half), Num(Half), Num(Half), Num(Half), Num(125 * Unit), Num(50 * Unit)),
       RawRecord(5, 200000, Num(Half), Num(Half), Num(Half), Num(Half), Num(0), Num(50 * Unit)),
       RawRecord(6, 200000, Num(Half), None, Num(Half), Num(Half), Num(125 * Unit), Num(50 * Unit)) >>

Datasets == UNION {[1..n -> {RawPool[k] : k \in DOMAIN RawPool}] : n \in 0..MaxRaw}

\* the rows of df at the positions in keep, in order (boolean mask, dropna,
\* drop_duplicates and reset_index all keep the order)
RECURSIVE Where(_, _, _)
Where(df, keep, i) ==
    IF i > Len(df) THEN <<>>
    ELSE (IF i \in keep THEN <<df[i]>> ELSE <<>>) \o Where(df, keep, i + 1)

\* lines 47-61
Clean(raw) ==
    LET d1 == Where(raw, {i \in DOMAIN raw :
                            \A c \in {"track_name", "artists", "track_id"}
                                     \cup {NUMERIC_FEATURES[k] : k \in DOMAIN NUMERIC_FEATURES} :
                                raw[i][c] # None}, 1)
        d2 == Where(d1, {i \in DOMAIN d1 :
                            \A j \in 1..(i - 1) : d1[j].track_id # d1[i].track_id}, 1)
        d3 == Where(d2, {i \in DOMAIN d2 :
                            /\ d2[i].duration_ms >= MinDurationMs
                            /\ d2[i].duration_ms <= MaxDurationMs}, 1)
    IN  Where(d3, {i \in DOMAIN d3 : d3[i].tempo[1] > 0}, 1)

ColMin(df, c) == CHOOSE m \in {df[i][c][1] : i \in DOMAIN df} :
                    \A i \in DOMAIN df : m <= df[i][c][1]

ColMax(df, c) == CHOOSE m \in {df[i][c][1] : i \in DOMAIN df} :
                    \A i \in DOMAIN df : m >= df[i][c][1]

\* MinMaxScaler().fit_transform on the NUMERIC_FEATURES columns (line 76):
\* (x - min) / (max - min) per column, a constant column scaled by 1
FitTransform(df) ==
    [i \in DOMAIN df |->
        [k \in DOMAIN NUMERIC_FEATURES |->
            LET c          == NUMERIC_FEATURES[k]
                data_range == ColMax(df, c) - ColMin(df, c)
            IN  IF data_range = 0 THEN df[i][c][1] - ColMin(df, c)
                ELSE ((df[i][c][1] - ColMin(df, c)) * Unit) \div data_range]]

\* main() (lines 30-94): what it leaves in tracks_features.npy and
\* tracks_meta.csv; a scaler fitted on no rows raises ValueError
PreprocessMain(input_exists, raw) ==
    IF ~input_exists THEN [op |-> "preprocess", status |-> "no_input"]
    ELSE LET df == Clean(raw)
         IN  IF Len(df) = 0
             THEN [op |-> "preprocess", status |-> "ValueError", raw |-> raw]
             ELSE [op |-> "preprocess", status |-> "ok", raw |-> raw,
                   tracks_features |-> FitTransform(df),
                   tracks_meta |->
                       [i \in DOMAIN df |->
                           [track_id |-> df[i].track_id, track_name |-> df[i].track_name,
                            artists |-> df[i].artists, album_name |-> df[i].album_name,
                            track_genre |-> df[i].track_genre]]]

PreprocessCall(t) ==
    /\ pc[t] = "idle"
    /\ pc' = [pc EXCEPT ![t] = "preprocess"]
    /\ ret' = NoRet
    /\ UNCHANGED <<disk, numpy, is_loaded, features_matrix, metadata_df, reads, full_df, app>>

\* the files it writes are not the one the engine opens (tracks_db.parquet)
PreprocessReturn(t) ==
    /\ pc[t] = "preprocess"
    /\ \E input_exists \in BOOLEAN, raw \in Datasets :
          /\ ~input_exists => raw = <<>>
          /\ ret' = PreprocessMain(input_exists, raw)
    /\ pc' = [pc EXCEPT ![t] = "idle"]
    /\ UNCHANGED <<disk, numpy, is_loaded, features_matrix, metadata_df, reads, full_df, app>>

NextBuild == PreprocessCall(1) \/ PreprocessReturn(1)

SpecBuild == InitRank /\ [][NextBuild]_vars

\* test_data_sync.py lines 91-96: the value the stored one is compared with
FixedMax(feature, raw_val) ==
    IF feature = "tempo" THEN Min(raw_val, 250 * Unit) \div 250
    ELSE IF feature = "popularity" THEN Min(raw_val, 100 * Unit) \div 100
    ELSE Min(raw_val, Unit)

\* raw_df[raw_df['track_id'] == track_id].iloc[0]
RawRowOf(raw, track_id) ==
    raw[CHOOSE i \in DOMAIN raw :
            raw[i].track_id = track_id /\ \A j \in 1..(i - 1) : raw[j].track_id # track_id]

Preprocessed == ret.op = "preprocess" /\ ret.status = "ok"

\* C25: in the catalog the preprocessing step writes, every row i has one
\* value per FEATURE_ORDER feature, and the k-th stored value of row i is the
\* fixed-max normalization (tempo min(raw,250)/250, popularity
\* min(raw,100)/100, others min(raw,1)) of the k-th FEATURE_ORDER feature of
\* the raw record whose track_id is that of metadata row i.
C25_SchemaAgrees ==
    Preprocessed =>
        \A i \in DOMAIN ret.tracks_features :
            /\ Len(ret.tracks_features[i]) = F
            /\ \A k \in 1..F :
                  ret.tracks_features[i][k] =
                      FixedMax(FEATURE_ORDER[k],
                               RawRowOf(ret.raw, ret.tracks_meta[i].track_id)[FEATURE_ORDER[k]][1])

\* rows and metadata do stay aligned: row i of the matrix is the scaling of
\* the cleaned record named by metadata row i
PreprocessAligned ==
    Preprocessed =>
        /\ Len(ret.tracks_features) = Len(ret.tracks_meta)
        /\ ret.tracks_features = FitTransform(Clean(ret.raw))
        /\ \A i \in DOMAIN ret.tracks_meta : ret.tracks_meta[i].track_id = Clean(ret.raw)[i].track_id

-----------------------------------------------------------------------------
(* playlist_search_params.py: PlaylistSearchParams and its validators *)

MaxSeedList == 3

MaxTotalSeeds == 5

\* some of the genres of VALID_GENRES (lines 4-26)
VALID_GENRES == {"rock", "pop", "jazz"}

SeedNames(kind) == {[i \in 1..n |-> <<kind, i>>] : n \in 0..MaxSeedList}

SeedGenres == UNION {[1..n -> (VALID_GENRES \cup {"notarealgenre"})] : n \in 0..MaxSeedList}

\* validate_seeds without the upper test
ValidateSeeds_NoUpperTest(seed_artists, seed_genres, seed_tracks) ==
    LET total_seeds == Len(seed_artists) + Len(seed_genres) + Len(seed_tracks)
    IN  IF total_seeds = 0 THEN "At least one seed must be provided"
        ELSE "ok"

\* validate_seeds (lines 343-351)
ValidateSeeds(seed_artists, seed_genres, seed_tracks) ==
    LET total_seeds == Len(seed_artists) + Len(seed_genres) + Len(seed_tracks)
    IN  IF total_seeds = 0 THEN "At least one seed must be provided"
        ELSE IF total_seeds > MaxTotalSeeds THEN "may not exceed 5"
        ELSE "ok"

\* validate_genres (lines 353-359)
ValidateGenres(seed_genres) ==
    IF \E i \in DOMAIN seed_genres : seed_genres[i] \notin VALID_GENRES
    THEN "Invalid genre" ELSE "ok"

\* PlaylistSearchParams(seed_artists=..., seed_genres=..., seed_tracks=...):
\* the field defaults pass, then the two validators run in the order written
PlaylistSearchParams(seed_artists, seed_genres, seed_tracks) ==
    LET seeds  == ValidateSeeds(seed_artists, seed_genres, seed_tracks)
        genres == ValidateGenres(seed_genres)
        given  == [seed_artists |-> seed_artists, seed_genres |-> seed_genres,
                   seed_tracks |-> seed_tracks]
    IN  IF seeds # "ok"
        THEN [op |-> "PlaylistSearchParams", status |-> "ValidationError", message |-> seeds,
              given |-> given]
        ELSE IF genres # "ok"
        THEN [op |-> "PlaylistSearchParams", status |-> "ValidationError", message |-> genres,
              given |-> given]
        ELSE [op |-> "PlaylistSearchParams", status |-> "ok", message |-> "", given |-> given]

ParamsCall(t) ==
    /\ pc[t] = "idle"
    /\ pc' = [pc EXCEPT ![t] = "params"]
    /\ ret' = NoRet
    /\ UNCHANGED <<disk, numpy, is_loaded, features_matrix, metadata_df, reads, full_df, app>>

ParamsReturn(t) ==
    /\ pc[t] = "params"
    /\ \E seed_artists \in SeedNames("artist"), seed_genres \in SeedGenres,
          seed_tracks \in SeedNames("track") :
          ret' = PlaylistSearchParams(seed_artists, seed_genres, seed_tracks)
    /\ pc' = [pc EXCEPT ![t] = "idle"]
    /\ UNCHANGED <<disk, numpy, is_loaded, features_matrix, metadata_df, reads, full_df, app>>

NextParams == ParamsCall(1) \/ ParamsReturn(1)

SpecParams == InitRank /\ [][NextParams]_vars

GivenSeeds ==
    Len(ret.given.seed_artists) + Len(ret.given.seed_genres) + Len(ret.given.seed_tracks)

GivenGenresValid ==
    \A i \in DOMAIN ret.given.seed_genres : ret.given.seed_genres[i] \in VALID_GENRES

\* C26: a PlaylistSearchParams object is constructed only when the total
\* number of seeds over seed_artists, seed_genres and seed_tracks is between 1
\* and 5; a total of 0 or of more than 5 raises a validation error, and every
\* total from 1 to 5 whose genres are valid is accepted.
C26_SeedTotal ==
    ret.op = "PlaylistSearchParams" =>
        /\ ret.status = "ok" => GivenSeeds \in 1..5
        /\ GivenSeeds = 0 => ret.status = "ValidationError"
        /\ GivenSeeds > 5 => ret.status = "ValidationError"
        /\ (GivenSeeds \in 1..5 /\ GivenGenresValid) => ret.status = "ok"
        /\ (ret.status = "ValidationError" /\ GivenGenresValid) => GivenSeeds \notin 1..5

\* five seeds, two artists, one genre and two tracks, are accepted
C26_Witness ==
    /\ ret.op = "PlaylistSearchParams"
    /\ ret.status = "ok"
    /\ GivenSeeds = 5
    /\ Len(ret.given.seed_artists) = 2
    /\ ret.given.seed_genres = <<"rock">>

-----------------------------------------------------------------------------
(* The seeds run_pipeline_v1 sends to the recommendation API *)

FoundSeeds == {<<"seed", i>> : i \in {j \in DOMAIN ret.resolved : ret.resolved[j] = "found"}}

\* the recommendation API was called: its answer is part of the outcome
ApiCalled == "rec_track_ids" \in DOMAIN ret

\* the ids in the seeds string
SentIds == {ret.seeds_sent[1][k] : k \in DOMAIN ret.seeds_sent[1]} \ {<<",">>}

-----------------------------------------------------------------------------
(* llm/llm_prompt_interpreter.py: LlmPromptInterpreter.interpret *)

MaxRetries == 3

ResponseModels == {"ReccoBeatsParams", "LocalSearchParams", "PlaylistSearchParams"}

\* lines 35-61: the system instruction is chosen, with one of the three
\* selection strategies at random for ReccoBeatsParams, or the model is refused
InterpretCall(t) ==
    /\ pc[t] = "idle"
    /\ \E response_model \in ResponseModels, retries \in 0..MaxRetries,
          current_strategy \in 1..3 :
          /\ response_model # "ReccoBeatsParams" => current_strategy = 1
          /\ interp' = [response_model |-> response_model,
                        strategy |-> IF response_model = "ReccoBeatsParams"
                                     THEN current_strategy ELSE 0,
                        retries |-> retries,
                        attempt |-> 0, responses |-> <<>>, sleeps |-> 0]
          /\ IF response_model \in {"ReccoBeatsParams", "LocalSearchParams"}
             THEN /\ pc' = [pc EXCEPT ![t] = "attempt"]
                  /\ ret' = NoRet
             ELSE /\ pc' = pc
                  /\ ret' = [op |-> "interpret", status |-> "ValueError",
                             message |-> "Unsupported response model type."]
    /\ UNCHANGED <<disk, numpy, is_loaded, features_matrix, metadata_df, reads, full_df,
                   session_state, sheet, generations>>

\* one pass of the loop that keeps going after a parsed response
InterpretAttempt_NoReturn(t) ==
    /\ pc[t] = "attempt"
    /\ interp.attempt < interp.retries
    /\ \E response \in {"parsed", "empty", "exception"} :
          /\ interp' = [interp EXCEPT
                          !.responses = Append(@, response),
                          !.attempt = @ + 1,
                          !.sleeps = IF interp.attempt < interp.retries - 1
                                     THEN @ + 1 ELSE @]
          /\ pc' = pc
          /\ ret' = ret
    /\ UNCHANGED <<disk, numpy, is_loaded, features_matrix, metadata_df, reads, full_df,
                   session_state, sheet, generations>>

\* one pass of the loop (lines 64-87): generate_content answers with a parsed
\* object, with nothing parsed, or raises
InterpretAttempt(t) ==
    /\ pc[t] = "attempt"
    /\ interp.attempt < interp.retries
    /\ \E response \in {"parsed", "empty", "exception"} :
          IF response = "parsed"
          THEN /\ interp' = [interp EXCEPT !.responses = Append(@, response)]
               /\ pc' = [pc EXCEPT ![t] = "idle"]
               /\ ret' = [op |-> "interpret", status |-> "ok",
                          parsed |-> interp.response_model]
          ELSE /\ interp' = [interp EXCEPT
                               !.responses = Append(@, response),
                               !.attempt = @ + 1,
                               !.sleeps = IF interp.attempt < interp.retries - 1
                                          THEN @ + 1 ELSE @]
               /\ pc' = pc
               /\ ret' = ret
    /\ UNCHANGED <<disk, numpy, is_loaded, features_matrix, metadata_df, reads, full_df,
                   session_state, sheet, generations>>

\* line 89: range(retries) is used up
InterpretExhausted(t) ==
    /\ pc[t] = "attempt"
    /\ interp.attempt >= interp.retries
    /\ pc' = [pc EXCEPT ![t] = "idle"]
    /\ ret' = [op |-> "interpret", status |-> "ValueError",
               message |-> "Gemini failed to generate valid JSON after multiple attempts."]
    /\ UNCHANGED <<disk, numpy, is_loaded, features_matrix, metadata_df, reads, full_df,
                   interp, session_state, sheet, generations>>

NextInterp == InterpretCall(1) \/ InterpretAttempt(1) \/ InterpretExhausted(1)

\* a call that has started keeps running: each generate_content call answers
\* or raises, and time.sleep(1) ends
SpecInterp ==
    /\ InitRank
    /\ [][NextInterp]_vars
    /\ WF_vars(InterpretAttempt(1) \/ InterpretExhausted(1))

Failed(response) == response \in {"empty", "exception"}

\* C28: interpret ends after at most `retries` generation attempts: a parsed
\* response is returned at once and is the first one, an exception or an
\* empty response counts as a failed attempt, ValueError is raised when
\* `retries` attempts have failed, an unsupported response model is refused
\* before any attempt, and every call that starts the loop leaves it.
C28_InterpretTerminates ==
    /\ [](/\ Len(interp.responses) <= interp.retries
          /\ \A k \in 1..(Len(interp.responses) - 1) : Failed(interp.responses[k])
          /\ interp.attempt = Cardinality({k \in DOMAIN interp.responses :
                                              Failed(interp.responses[k])})
          /\ (ret.op = "interpret" /\ ret.status = "ok") =>
                /\ pc[1] = "idle"
                /\ interp.responses # <<>>
                /\ interp.responses[Len(interp.responses)] = "parsed"
          /\ (ret.op = "interpret" /\ ret.status = "ValueError") =>
                /\ pc[1] = "idle"
                /\ IF interp.response_model \in {"ReccoBeatsParams", "LocalSearchParams"}
                   THEN /\ Len(interp.responses) = interp.retries
                        /\ \A k \in DOMAIN interp.responses : Failed(interp.responses[k])
                   ELSE interp.responses = <<>>
          /\ (pc[1] = "attempt") =>
                \A k \in DOMAIN interp.responses : Failed(interp.responses[k]))
    /\ [][Len(interp'.responses) > Len(interp.responses) =>
             /\ pc[1] = "attempt"
             /\ Len(interp'.responses) = Len(interp.responses) + 1
             /\ \A k \in DOMAIN interp.responses : Failed(interp.responses[k])]_vars
    /\ ((pc[1] = "attempt") ~> (pc[1] = "idle" /\ ret.op = "interpret"))

\* two failed attempts, an exception and an empty response, then the third
\* of three is parsed and returned
C28_Witness ==
    /\ ret.op = "interpret"
    /\ ret.status = "ok"
    /\ interp.retries = 3
    /\ interp.responses = <<"exception", "empty", "parsed">>
    /\ interp.sleeps = 2
    /\ pc[1] = "idle"

-----------------------------------------------------------------------------
(* app.py: one browser session of the Streamlit app *)

MaxGenerations == 2

MaxVotes == 3

Running == {"v1", "v2", "playlists"}

\* handle_oauth_callback (lines 311-343): the user comes back logged in
HandleOauthCallback(t) ==
    /\ pc[t] = "idle"
    /\ session_state.spotify_auth = None
    /\ session_state' = [session_state EXCEPT !.spotify_auth = Num("user")]
    /\ UNCHANGED <<disk, numpy, is_loaded, features_matrix, metadata_df, reads, pc, full_df,
                   ret, interp, sheet, generations>>

\* the Generate button (lines 185-202) and the head of run_generation_logic
\* (lines 207-221)
RunGenerationLogic(t) ==
    /\ pc[t] = "idle"
    /\ \E prompt \in {"", " ", "sad piano"} :
          LET typed == [session_state EXCEPT !.current_prompt = prompt]
          IN  IF typed.spotify_auth = None \/ prompt \in {"", " "} \/ typed.is_generating
              THEN /\ session_state' = typed
                   /\ UNCHANGED <<pc, generations>>
              ELSE /\ generations < MaxGenerations
                   /\ session_state' = [typed EXCEPT
                                          !.is_generating = TRUE,
                                          !.show_results = FALSE,
                                          !.vote_submitted = FALSE,
                                          !.vote_success = FALSE,
                                          !.v1_results = None,
                                          !.v2_results = None,
                                          !.v1_error = None,
                                          !.v2_error = None]
                   /\ pc' = [pc EXCEPT ![t] = "v1"]
                   /\ generations' = generations + 1
    /\ UNCHANGED <<disk, numpy, is_loaded, features_matrix, metadata_df, reads, full_df,
                   ret, interp, sheet>>

\* what a pipeline hands back: a dict with its track ids, or it raises
PipelineOutcomes ==
    {[raised |-> FALSE, results |-> [track_ids |-> <<>>]],
     [raised |-> FALSE, results |-> [track_ids |-> <<"a", "b">>]],
     [raised |-> TRUE, results |-> [track_ids |-> <<>>]]}

\* lines 224-228 with an error that ends the run
GenerateV1_Propagates(t) ==
    /\ pc[t] = "v1"
    /\ \E o \in PipelineOutcomes :
          IF o.raised
          THEN /\ session_state' = [session_state EXCEPT !.v1_error = Num("error")]
               /\ pc' = [pc EXCEPT ![t] = "idle"]
          ELSE /\ session_state' = [session_state EXCEPT !.v1_results = Num(o.results)]
               /\ pc' = [pc EXCEPT ![t] = "v2"]
    /\ UNCHANGED <<disk, numpy, is_loaded, features_matrix, metadata_df, reads, full_df,
                   ret, interp, sheet, generations>>

\* lines 224-228
GenerateV1(t) ==
    /\ pc[t] = "v1"
    /\ \E o \in PipelineOutcomes :
          session_state' = IF o.raised
                           THEN [session_state EXCEPT !.v1_error = Num("error")]
                           ELSE [session_state EXCEPT !.v1_results = Num(o.results)]
    /\ pc' = [pc EXCEPT ![t] = "v2"]
    /\ UNCHANGED <<disk, numpy, is_loaded, features_matrix, metadata_df, reads, full_df,
                   ret, interp, sheet, generations>>

\* lines 231-235
GenerateV2(t) ==
    /\ pc[t] = "v2"
    /\ \E o \in PipelineOutcomes :
          session_state' = IF o.raised
                           THEN [session_state EXCEPT !.v2_error = Num("error")]
                           ELSE [session_state EXCEPT !.v2_results = Num(o.results)]
    /\ pc' = [pc EXCEPT ![t] = "playlists"]
    /\ UNCHANGED <<disk, numpy, is_loaded, features_matrix, metadata_df, reads, full_df,
                   ret, interp, sheet, generations>>

\* lines 238-247 with create_playlist_wrapper (lines 125-134), which gives a
\* url or, on any error, None
CreatePlaylists(t) ==
    /\ pc[t] = "playlists"
    /\ \E a_url \in {None, Num("url_a")}, b_url \in {None, Num("url_b")} :
          session_state' = [session_state EXCEPT
                              !.playlist_a_url = IF session_state.v1_results # None
                                                 THEN a_url ELSE @,
                              !.playlist_b_url = IF session_state.v2_results # None
                                                 THEN b_url ELSE @,
                              !.show_results = TRUE,
                              !.is_generating = FALSE]
    /\ pc' = [pc EXCEPT ![t] = "idle"]
    /\ UNCHANGED <<disk, numpy, is_loaded, features_matrix, metadata_df, reads, full_df,
                   ret, interp, sheet, generations>>

\* render_results reaches render_voting_buttons (lines 250, 281)
VotingRendered ==
    /\ session_state.show_results
    /\ session_state.v1_results # None
    /\ session_state.v2_results # None

\* save_vote_to_sheet that leaves vote_submitted alone
SaveVoteToSheet_NoSubmitted(t) ==
    /\ pc[t] = "idle"
    /\ VotingRendered
    /\ ~session_state.vote_submitted
    /\ \E vote_type \in {"V1", "tie", "V2"}, client \in BOOLEAN, appended \in BOOLEAN :
          IF ~client
          THEN UNCHANGED <<session_state, sheet>>
          ELSE IF appended
          THEN /\ Len(sheet) < MaxVotes
               /\ sheet' = Append(sheet,
                                  [timestamp |-> generations,
                                   prompt |-> session_state.current_prompt,
                                   vote_type |-> vote_type,
                                   v1_len |-> Len(session_state.v1_results[1].track_ids),
                                   v2_len |-> Len(session_state.v2_results[1].track_ids)])
               /\ session_state' = [session_state EXCEPT !.vote_success = TRUE]
          ELSE /\ session_state' = [session_state EXCEPT !.vote_success = FALSE]
               /\ sheet' = sheet
    /\ UNCHANGED <<disk, numpy, is_loaded, features_matrix, metadata_df, reads, pc, full_df,
                   ret, interp, generations>>

\* one of the three vote buttons (lines 298-305) and its callback
\* save_vote_to_sheet (lines 95-123); a row's timestamp is the number of the
\* generation it was cast in
SaveVoteToSheet(t) ==
    /\ pc[t] = "idle"
    /\ VotingRendered
    /\ ~session_state.vote_submitted
    /\ \E vote_type \in {"V1", "tie", "V2"}, client \in BOOLEAN, appended \in BOOLEAN :
          IF ~client
          THEN UNCHANGED <<session_state, sheet>>
          ELSE IF appended
          THEN /\ Len(sheet) < MaxVotes
               /\ sheet' = Append(sheet,
                                  [timestamp |-> generations,
                                   prompt |-> session_state.current_prompt,
                                   vote_type |-> vote_type,
                                   v1_len |-> Len(session_state.v1_results[1].track_ids),
                                   v2_len |-> Len(session_state.v2_results[1].track_ids)])
               /\ session_state' = [session_state EXCEPT !.vote_success = TRUE,
                                                         !.vote_submitted = TRUE]
          ELSE /\ session_state' = [session_state EXCEPT !.vote_success = FALSE]
               /\ sheet' = sheet
    /\ UNCHANGED <<disk, numpy, is_loaded, features_matrix, metadata_df, reads, pc, full_df,
                   ret, interp, generations>>

\* the Start Over button (lines 288-297)
StartOver(t) ==
    /\ pc[t] = "idle"
    /\ VotingRendered
    /\ session_state.vote_submitted
    /\ session_state' = [session_state EXCEPT !.show_results = FALSE, !.current_prompt = ""]
    /\ UNCHANGED <<disk, numpy, is_loaded, features_matrix, metadata_df, reads, pc, full_df,
                   ret, interp, sheet, generations>>

NextApp ==
    \/ HandleOauthCallback(1)
    \/ RunGenerationLogic(1)
    \/ GenerateV1(1)
    \/ GenerateV2(1)
    \/ CreatePlaylists(1)
    \/ SaveVoteToSheet(1)
    \/ StartOver(1)

\* a run that has started goes on: each pipeline returns or raises, and so
\* does each playlist creation
SpecApp ==
    /\ InitRank
    /\ [][NextApp]_vars
    /\ WF_vars(GenerateV1(1) \/ GenerateV2(1) \/ CreatePlaylists(1))

C30_OneVotePerGeneration ==
    /\ [](/\ session_state.vote_submitted => session_state.vote_success
          /\ \A i, j \in DOMAIN sheet : i # j => sheet[i].timestamp # sheet[j].timestamp
          /\ session_state.vote_submitted =>
                \E i \in DOMAIN sheet : sheet[i].timestamp = generations)
    /\ [][/\ sheet' # sheet =>
                /\ VotingRendered
                /\ ~session_state.vote_submitted
                /\ Len(sheet') = Len(sheet) + 1
                /\ session_state'.vote_submitted
                /\ session_state'.vote_success
          /\ (session_state'.vote_submitted /\ ~session_state.vote_submitted) =>
                sheet' # sheet
          /\ (session_state.vote_submitted /\ ~session_state'.vote_submitted) =>
                generations' = generations + 1]_vars

\* a second generation voted on after the first: one row each
C30_Witness ==
    /\ generations = 2
    /\ Len(sheet) = 2
    /\ sheet[1].timestamp = 1
    /\ sheet[2].timestamp = 2
    /\ sheet[2].vote_type = "tie"
    /\ session_state.vote_submitted
    /\ session_state.vote_success

====
